---- MODULE Spec2Model ----
(***************************************************************************)
(* Gomoku engine of KaixiangCS/cmput496: the padded one-dimensional board  *)
(* (assignment3/simple_board.py), the minimax solver of the GTP connection *)
(* (assignment2/gtp_connection.py) and the Monte Carlo search              *)
(* (assignment4/gomoku4/MCTS.py).                                          *)
(***************************************************************************)
EXTENDS Integers, Sequences, FiniteSets, TLC

(***************************************************************************)
(* Cell codes.  board_util.py is not part of the sources; the codes are    *)
(* the ones the sources use as literals: undo writes 0, solve_cmd maps     *)
(* 'b' to 1 and 'w' to 2.                                                  *)
(***************************************************************************)
EMPTY == 0
BLACK == 1
WHITE == 2
BORDER == 3

\* PASS is Python's None in board_util; the model encodes it as an integer
\* that is no array index.
PASS == -1

\* liberty_of's marker for "no liberty cached" (board_util.NULLPOINT).
NULLPOINT == 0

\* SimpleGoBoard.__init__: assert 2 <= size <= MAXSIZE
MINSIZE == 2

\* run length that ends the game (_point_direction_check_connect_gomoko)
FIVE == 5

\* Bounds of the model.
MaxStones == 2

VARIABLES
    size,            \* SimpleGoBoard.size
    board,           \* SimpleGoBoard.board: 0..maxpoint-1 -> cell code
    current_player,  \* SimpleGoBoard.current_player
    liberty_of,      \* SimpleGoBoard.liberty_of
    last,            \* the last board call and what it returned
    pre_board,       \* the grid when the last play_move_gomoku was called
    pre_player,      \* current_player when the last play_move_gomoku was called
    out,             \* the last scan called on the board and the value it returned
    time,            \* GtpConnection.time: the limit minimax compares with
    toPlay,          \* GtpConnection.toPlay
    late,            \* process_time() - s_time > the limit, were it read now
    stack,           \* the minimax invocations in progress, innermost last
    ret,             \* what the minimax invocation that ended last returned
    status,          \* where the command in progress stands
    call_board,      \* the grid when solve was called
    call_player,     \* current_player when solve was called
    history,         \* the successful plays not yet undone, and the counts of calls
    mc,              \* Monte_Carlo_Tree: its locals and where it stands
    monte_tree,      \* Monte_Carlo_Tree: monte_tree, board signature -> state
    mc_ret           \* what the last Monte_Carlo_Tree call returned

boardVars == <<size, board, current_player, liberty_of>>
callVars == <<last, pre_board, pre_player>>
solverVars == <<time, toPlay, late, stack, ret, status, call_board, call_player>>
mctsVars == <<mc, monte_tree, mc_ret>>
vars == <<size, board, current_player, liberty_of, last, pre_board, pre_player, out,
          time, toPlay, late, stack, ret, status, call_board, call_player,
          history, mc, monte_tree, mc_ret>>

\* GtpConnection.__init__: self.time = time binds the module `time`, which is
\* no number; timelimit_cmd stores an int
ModuleTime == [module |-> TRUE, limit |-> 0]

NumberTime(n) == [module |-> FALSE, limit |-> n]

\* timelimit_cmd: int(time) >= 1 and int(time) <= 100
MinLimit == 1
MaxLimit == 100

\* a minimax return value (outcome, move): the outcome is Python's True or
\* False or the string 'draw' or 'unknown'; the move is a point, or the False
\* of `return False, False`, or the 1 of `return True, 1` (True == 1)
FalseMove == 0
TrueMove == 1

Result(outcome, move) == [outcome |-> outcome, move |-> move]

NoResult == Result("none", PASS)

----------------------------------------------------------------------------
(* Geometry of the padded array *)

NSof(sz) == sz + 1
MaxPointOf(sz) == sz * sz + 3 * (sz + 1)
NS == NSof(size)
maxpoint == MaxPointOf(size)
Indices == 0 .. (maxpoint - 1)

\* row_start(row) = row * NS + 1
RowStart(sz, row) == row * NSof(sz) + 1

\* coord_to_point(row, col, size) = NS * row + col
CoordToPoint(sz, row, col) == NSof(sz) * row + col

\* the cells _initialize_empty_points fills with EMPTY
OnBoardOf(sz) == { RowStart(sz, row) + i : row \in 1 .. sz, i \in 0 .. (sz - 1) }
OnBoard == OnBoardOf(size)

\* reset(size): a grid of BORDER with the rows set to EMPTY
EmptyBoard(sz) ==
    LET cells == OnBoardOf(sz) IN
    [p \in 0 .. (MaxPointOf(sz) - 1) |-> IF p \in cells THEN EMPTY ELSE BORDER]

EmptyLiberty(sz) == [p \in 0 .. (MaxPointOf(sz) - 1) |-> NULLPOINT]

\* GoBoardUtil.opponent
Opponent(color) == WHITE + BLACK - color

IsBlackWhite(color) == color = BLACK \/ color = WHITE

\* where1d(board == color): ascending indices
RECURSIVE SetToSeqFrom(_, _, _)
SetToSeqFrom(S, lo, hi) ==
    IF lo > hi THEN <<>>
    ELSE IF lo \in S THEN <<lo>> \o SetToSeqFrom(S, lo + 1, hi)
    ELSE SetToSeqFrom(S, lo + 1, hi)

PointsOfColor(b, color) == { p \in DOMAIN b : b[p] = color }
Where1d(b, color) == SetToSeqFrom(PointsOfColor(b, color), 0, maxpoint - 1)

StoneCount(b) == Cardinality({ p \in DOMAIN b : IsBlackWhite(b[p]) })

----------------------------------------------------------------------------
(* Terminal detection *)

\* the steps of the four axes, in the order point_check_game_end_gomoku tries them
Shifts == <<1, NS, NS + 1, NS - 1>>

\* one `while True` loop of _point_direction_check_connect_gomoko and of
\* direction_check_connect_gomoko: step from p by d while the cell has `color`,
\* stopping as soon as the count is `max`
RECURSIVE WalkCount(_, _, _, _, _, _)
WalkCount(b, p, d, color, count, max) ==
    IF b[p + d] = color
    THEN IF count + 1 = max THEN count + 1
         ELSE WalkCount(b, p + d, d, color, count + 1, max)
    ELSE count

\* _point_direction_check_connect_gomoko(point, shift): "True", "False", or
\* "AssertionError" when `assert count <= 5` fails
PointDirectionCheck_offByOne(b, point, shift) ==
    LET color == b[point]
        c1 == WalkCount(b, point, shift, color, 1, FIVE - 1)
        c2 == WalkCount(b, point, -shift, color, c1, FIVE - 1)
    IN  IF c2 > FIVE THEN "AssertionError"
        ELSE IF c2 >= FIVE - 1 THEN "True" ELSE "False"

\* the first loop without its `if count == 5: break`
PointDirectionCheck_noBreak(b, point, shift) ==
    LET color == b[point]
        c1 == WalkCount(b, point, shift, color, 1, MaxPointOf(2 * FIVE))
        c2 == WalkCount(b, point, -shift, color, c1, FIVE)
    IN  IF c2 > FIVE THEN "AssertionError"
        ELSE IF c2 = FIVE THEN "True" ELSE "False"

PointDirectionCheck(b, point, shift) ==
    LET color == b[point]
        c1 == WalkCount(b, point, shift, color, 1, FIVE)
        c2 == WalkCount(b, point, -shift, color, c1, FIVE)
    IN  IF c2 > FIVE THEN "AssertionError"
        ELSE IF c2 = FIVE THEN "True" ELSE "False"

\* point_check_game_end_gomoku(point): horizontal, vertical, y=x, y=-x
RECURSIVE PointCheckFrom(_, _, _)
PointCheckFrom(b, point, i) ==
    IF i > Len(Shifts) THEN "False"
    ELSE LET r == PointDirectionCheck(b, point, Shifts[i]) IN
         IF r = "False" THEN PointCheckFrom(b, point, i + 1) ELSE r

PointCheckGameEnd(b, point) == PointCheckFrom(b, point, 1)

\* the loop `for point in points: if point_check_game_end_gomoku(point): return`
RECURSIVE FirstEnding(_, _, _)
FirstEnding(b, points, i) ==
    IF i > Len(points) THEN "False"
    ELSE LET r == PointCheckGameEnd(b, points[i]) IN
         IF r = "False" THEN FirstEnding(b, points, i + 1) ELSE r

\* check_game_end_gomoku(): the white stones first, then the black ones.
\* None is PASS's value.
CheckGameEndGomoku(b) ==
    LET w == FirstEnding(b, Where1d(b, WHITE), 1) IN
    IF w = "AssertionError" THEN [end |-> "AssertionError", winner |-> PASS]
    ELSE IF w = "True" THEN [end |-> "True", winner |-> WHITE]
    ELSE LET k == FirstEnding(b, Where1d(b, BLACK), 1) IN
         IF k = "AssertionError" THEN [end |-> "AssertionError", winner |-> PASS]
         ELSE IF k = "True" THEN [end |-> "True", winner |-> BLACK]
         ELSE [end |-> "False", winner |-> PASS]

----------------------------------------------------------------------------
(* Go legality, which the move ordering consults (is_legal and its helpers). *)
(* The helpers write the liberty_of cache, so each returns the cache too.    *)

\* `name = value`, a local variable of a method: the value is computed once
\* and F continues with it
Bind(value, F(_)) == CHOOSE y \in { F(v) : v \in {value} } : TRUE

\* _on_board_neighbors: the cells that were not BORDER at reset
IsOnBoard(q) == (q \div NS) \in 1 .. size /\ (q % NS) \in 1 .. size

\* self.neighbors[point]: _neighbors(point) without the BORDER cells
Neighbors(p) == SelectSeq(<<p - 1, p + 1, p - NS, p + NS>>, IsOnBoard)

NeighborSet(p) == { q \in {p - 1, p + 1, p - NS, p + NS} : IsOnBoard(q) }

\* find_neighbor_of_color(point, color): the first such neighbor, or None
FindNeighborOfColor(b, p, color) ==
    LET nbs == SelectSeq(Neighbors(p), LAMBDA q : b[q] = color) IN
    IF nbs = <<>> THEN PASS ELSE Head(nbs)

\* _stone_has_liberty(stone)
StoneHasLiberty(b, stone) == \E q \in NeighborSet(stone) : b[q] = EMPTY

\* _block_of(stone): the stones connected to `stone` through neighbors of its color
RECURSIVE GrowBlock(_, _, _, _)
GrowBlock(b, color, marked, frontier) ==
    IF frontier = {} THEN marked
    ELSE Bind({ q \in UNION { NeighborSet(p) : p \in frontier } :
                  b[q] = color /\ q \notin marked },
              LAMBDA new : Bind(marked \cup new, LAMBDA m : GrowBlock(b, color, m, new)))

BlockOf(b, stone) == GrowBlock(b, b[stone], {stone}, {stone})

\* _get_liberty(block): the first liberty of the first stone (ascending) that
\* has one, or None
GetLiberty(b, block) ==
    Bind({ s \in block : StoneHasLiberty(b, s) }, LAMBDA free :
         IF free = {} THEN PASS
         ELSE FindNeighborOfColor(b, CHOOSE s \in free : \A t \in free : s <= t, EMPTY))

\* _has_liberty(block): also stores the liberty found for every stone of the block
HasLiberty(b, lo, block) ==
    Bind(block, LAMBDA blk :
    Bind(GetLiberty(b, blk), LAMBDA lib :
         IF lib # PASS
         THEN [has |-> TRUE, lo |-> [p \in DOMAIN lo |-> IF p \in blk THEN lib ELSE lo[p]]]
         ELSE [has |-> FALSE, lo |-> lo]))

\* _fast_liberty_check(nb_point)
FastLibertyCheck(b, lo, nb) ==
    \/ lo[nb] # NULLPOINT /\ b[lo[nb]] = EMPTY
    \/ StoneHasLiberty(b, nb)

\* _detect_capture(nb_point)
DetectCapture(b, lo, nb) ==
    IF FastLibertyCheck(b, lo, nb) THEN [cap |-> FALSE, lo |-> lo]
    ELSE Bind(HasLiberty(b, lo, BlockOf(b, nb)), LAMBDA h : [cap |-> ~h.has, lo |-> h.lo])

\* _detect_captures(point, opp_color): stops at the first captured neighbor
RECURSIVE DetectCapturesFrom(_, _, _, _)
DetectCapturesFrom(b, lo, nbs, i) ==
    IF i > Len(nbs) THEN [cap |-> FALSE, lo |-> lo]
    ELSE Bind(DetectCapture(b, lo, nbs[i]), LAMBDA c :
              IF c.cap THEN c ELSE DetectCapturesFrom(b, c.lo, nbs, i + 1))

DetectCaptures(b, lo, point, opp_color) ==
    Bind(SelectSeq(Neighbors(point), LAMBDA q : b[q] = opp_color),
         LAMBDA nbs : DetectCapturesFrom(b, lo, nbs, 1))

\* is_legal(point, color) for a point that is not PASS; ko_recapture is None
\* throughout (only play_move sets it).  b is the grid before the trial stone,
\* b1 the grid with it.
IsLegal_emptyOnly(b, lo, point, color) ==
    [legal |-> b[point] = EMPTY, lo |-> lo]

IsLegal(b, lo, point, color) ==
    IF b[point] # EMPTY THEN [legal |-> FALSE, lo |-> lo]
    ELSE Bind([b EXCEPT ![point] = color], LAMBDA b1 :
         Bind(DetectCaptures(b1, lo, point, Opponent(color)), LAMBDA c :
              IF ~c.cap /\ ~StoneHasLiberty(b1, point)
              THEN Bind(HasLiberty(b1, c.lo, BlockOf(b1, point)),
                        LAMBDA h : [legal |-> h.has, lo |-> h.lo])
              ELSE [legal |-> TRUE, lo |-> c.lo]))

----------------------------------------------------------------------------
(* Move ordering *)

\* `if is_legal(..): pointWin.append(..) elif is_legal(..): ...`: the candidates
\* are asked in turn and the first legal one is appended
RECURSIVE FirstLegal(_, _, _, _, _)
FirstLegal(b, lo, cands, color, i) ==
    IF i > Len(cands) THEN [win |-> {}, lo |-> lo]
    ELSE Bind(IsLegal(b, lo, cands[i], color), LAMBDA l :
              IF l.legal THEN [win |-> {cands[i]}, lo |-> l.lo]
              ELSE FirstLegal(b, l.lo, cands, color, i + 1))

\* direction_check_connect_gomoko(point, shift, max): (count == max, pointWin).
\* The first loop (count c1) reaches max at point + (max-1)*shift and then asks
\* is_legal for the cell beyond and, failing that, for the cell before `point`;
\* the second loop goes on counting from c1 (count c2) and asks for the cell
\* beyond its end.
DirectionCheck(b, lo, point, shift, max) ==
    Bind(WalkCount(b, point, shift, b[point], 1, max), LAMBDA c1 :
    Bind(FirstLegal(b, lo,
                    IF c1 = max /\ c1 > 1 THEN <<point + c1 * shift, point - shift>> ELSE <<>>,
                    b[point], 1), LAMBDA w1 :
    Bind(WalkCount(b, point, -shift, b[point], c1, max), LAMBDA c2 :
    Bind(FirstLegal(b, w1.lo,
                    IF c2 = max /\ c2 > c1 THEN <<point - (c2 - c1 + 1) * shift>> ELSE <<>>,
                    b[point], 1), LAMBDA w2 :
         [check |-> c2 = max, pointWin |-> w1.win \cup w2.win, lo |-> w2.lo]))))

\* check_n(point, max): the points of the four axes whose check is True, as the
\* set that list(set(list_p)) is built from (empty for False)
RECURSIVE CheckNFrom(_, _, _, _, _, _)
CheckNFrom(b, lo, point, max, i, acc) ==
    IF i > Len(Shifts) THEN [pts |-> acc, lo |-> lo]
    ELSE Bind(DirectionCheck(b, lo, point, Shifts[i], max), LAMBDA d :
         Bind(IF d.check THEN acc \cup d.pointWin ELSE acc, LAMBDA list_p :
              CheckNFrom(b, d.lo, point, max, i + 1, list_p)))

CheckN(b, lo, point, max) == CheckNFrom(b, lo, point, max, 1, {})

\* one of the loops `for point in stones: if check_n(point, max) != False:
\* list_temp = check_n(point, max); list_n = [x for x in list_temp if x not in
\* final_n]; final_n = final_n + list_n`.  check_n is called twice (r1, r2); a
\* second result of False would make the comprehension raise TypeError (err).
\* A bucket is kept as the sequence of the groups added, each group a set:
\* the order inside a group is the iteration order of a Python set.
RECURSIVE BucketFrom(_, _, _, _, _, _)
BucketFrom(b, stones, max, i, acc, lo) ==
    IF i > Len(stones) THEN [groups |-> acc.groups, seen |-> acc.seen, err |-> acc.err, lo |-> lo]
    ELSE Bind(CheckN(b, lo, stones[i], max), LAMBDA r1 :
         IF r1.pts = {} THEN BucketFrom(b, stones, max, i + 1, acc, r1.lo)
         ELSE Bind(CheckN(b, r1.lo, stones[i], max), LAMBDA r2 :
              Bind([groups |-> Append(acc.groups, r2.pts \ acc.seen),
                    seen |-> acc.seen \cup r2.pts,
                    err |-> acc.err \/ r2.pts = {}], LAMBDA final_n :
                   BucketFrom(b, stones, max, i + 1, final_n, r2.lo))))

Bucket(b, lo, stones, max) ==
    BucketFrom(b, stones, max, 1, [groups |-> <<>>, seen |-> {}, err |-> FALSE], lo)

\* [x for x in final_n if x not in final_final_list], group by group
RECURSIVE WithoutFrom(_, _, _)
WithoutFrom(groups, seen, i) ==
    IF i > Len(groups) THEN <<>>
    ELSE <<groups[i] \ seen>> \o WithoutFrom(groups, seen, i + 1)

Without_noFilter(groups, seen) == groups

Without(groups, seen) == WithoutFrom(groups, seen, 1)

\* generate_legal_moves(color): the EMPTY points, ascending
GenerateLegalMoves(b) == Where1d(b, EMPTY)

\* the points of a list as one-point groups
RECURSIVE SinglesFrom(_, _)
SinglesFrom(points, i) ==
    IF i > Len(points) THEN <<>> ELSE <<{points[i]}>> \o SinglesFrom(points, i + 1)

Singles(points) == SinglesFrom(points, 1)

NonEmptyGroups(groups) == SelectSeq(groups, LAMBDA g : g # {})

\* order_the_point(color): final_4, then final_3 without final_4, then final_2,
\* final_1 and the remaining legal moves, each without what precedes it.
\* `color == 2` selects the white stones, anything else the black ones.
RECURSIVE BucketsFrom(_, _, _, _, _)
BucketsFrom(b, stones, max, acc, lo) ==
    IF max = 0 THEN [moves |-> acc.moves, seen |-> acc.seen, err |-> acc.err, lo |-> lo]
    ELSE Bind(Bucket(b, lo, stones, max), LAMBDA final_n :
         Bind([moves |-> acc.moves \o Without(final_n.groups, acc.seen),
               seen |-> acc.seen \cup final_n.seen,
               err |-> acc.err \/ final_n.err], LAMBDA final_final_list :
              BucketsFrom(b, stones, max - 1, final_final_list, final_n.lo)))

OrderThePoint(b, lo, color) ==
    Bind(Where1d(b, IF color = 2 THEN WHITE ELSE BLACK), LAMBDA stones :
    Bind(BucketsFrom(b, stones, FIVE - 1, [moves |-> <<>>, seen |-> {}, err |-> FALSE], lo),
         LAMBDA f :
         [moves |-> NonEmptyGroups(f.moves \o Without(Singles(GenerateLegalMoves(b)), f.seen)),
          err |-> f.err,
          lo |-> f.lo]))

\* the points of a sequence of groups
RECURSIVE GroupPoints(_)
GroupPoints(groups) ==
    IF groups = <<>> THEN {} ELSE Head(groups) \cup GroupPoints(Tail(groups))

----------------------------------------------------------------------------
(* The board calls *)

NoScan == [call |-> "none"]

NoCall == [op |-> "none", point |-> PASS, color |-> EMPTY, ret |-> "none", after |-> "none"]

\* reset(size)
Reset(sz) ==
    /\ size' = sz
    /\ board' = EmptyBoard(sz)
    /\ current_player' = BLACK
    /\ liberty_of' = EmptyLiberty(sz)

PlayResult_anyCell(b, point, color) ==
    IF ~IsBlackWhite(color) \/ point = PASS THEN "AssertionError"
    ELSE "True"

\* what play_move_gomoku(point, color) returns: the two assertions first
PlayResult(b, point, color) ==
    IF ~IsBlackWhite(color) \/ point = PASS THEN "AssertionError"
    ELSE IF b[point] # EMPTY THEN "False"
    ELSE "True"

PlayMoveGomoku_flipFirst(point, color) ==
    LET r == PlayResult(board, point, color) IN
    /\ r = "True" => StoneCount(board) < MaxStones
    /\ board' = IF r = "True" THEN [board EXCEPT ![point] = color] ELSE board
    /\ current_player' = IF r # "AssertionError" THEN Opponent(color) ELSE current_player
    /\ last' = [op |-> "play", point |-> point, color |-> color, ret |-> r, after |-> "none"]
    /\ pre_board' = board
    /\ pre_player' = current_player
    /\ UNCHANGED <<size, liberty_of, out>>
    /\ UNCHANGED solverVars
    /\ UNCHANGED mctsVars

PlayMoveGomoku_togglePlayer(point, color) ==
    LET r == PlayResult(board, point, color) IN
    /\ r = "True" => StoneCount(board) < MaxStones
    /\ board' = IF r = "True" THEN [board EXCEPT ![point] = color] ELSE board
    /\ current_player' = IF r = "True" THEN Opponent(current_player) ELSE current_player
    /\ last' = [op |-> "play", point |-> point, color |-> color, ret |-> r, after |-> "none"]
    /\ pre_board' = board
    /\ pre_player' = current_player
    /\ UNCHANGED <<size, liberty_of, out>>
    /\ UNCHANGED solverVars
    /\ UNCHANGED mctsVars

PlayMoveGomoku(point, color) ==
    LET r == PlayResult(board, point, color) IN
    /\ r = "True" => StoneCount(board) < MaxStones
    /\ board' = IF r = "True" THEN [board EXCEPT ![point] = color] ELSE board
    /\ current_player' = IF r = "True" THEN Opponent(color) ELSE current_player
    /\ last' = [op |-> "play", point |-> point, color |-> color, ret |-> r, after |-> "none"]
    /\ pre_board' = board
    /\ pre_player' = current_player
    /\ UNCHANGED <<size, liberty_of, out>>
    /\ UNCHANGED solverVars
    /\ UNCHANGED mctsVars

\* undo(point): self.board[point] = 0, whatever the cell held
UndoBoard_keepStone(b, point) == b

UndoBoard(b, point) == [b EXCEPT ![point] = EMPTY]

Undo(point) ==
    /\ board' = UndoBoard(board, point)
    /\ last' = [op |-> "undo", point |-> point, color |-> EMPTY, ret |-> "none",
                after |-> IF last.op = "play" /\ last.point = point THEN last.ret ELSE "none"]
    /\ UNCHANGED <<size, current_player, liberty_of, pre_board, pre_player, out>>
    /\ UNCHANGED solverVars
    /\ UNCHANGED mctsVars

----------------------------------------------------------------------------
(* Spec: the board under play_move_gomoku and undo, from reset *)

\* no call counted yet
NoHistory == history = [applied |-> <<>>, plays |-> 0, undos |-> 0, ordered |-> TRUE]

\* no Monte_Carlo_Tree call in progress
NoSearch == [pc |-> "idle"]

SearchIdle ==
    /\ mc = NoSearch
    /\ monte_tree = <<>>
    /\ mc_ret = PASS

\* the connection after construction, no command in progress; call_board is
\* meaningful from solve_cmd on
SolverIdle ==
    /\ time = ModuleTime
    /\ toPlay = "b"
    /\ late = FALSE
    /\ stack = <<>>
    /\ ret = NoResult
    /\ status = "idle"
    /\ call_board = board
    /\ call_player = current_player

Init ==
    /\ \E sz \in {MINSIZE} :
          /\ size = sz
          /\ board = EmptyBoard(sz)
          /\ liberty_of = EmptyLiberty(sz)
          /\ pre_board = EmptyBoard(sz)
    /\ current_player = BLACK
    /\ pre_player = BLACK
    /\ last = NoCall
    /\ out = NoScan
    /\ SolverIdle
    /\ NoHistory
    /\ SearchIdle

Play == \E point \in Indices \cup {PASS}, color \in {EMPTY, BLACK, WHITE} :
            PlayMoveGomoku(point, color) /\ UNCHANGED history

UndoCall == \E point \in OnBoard : Undo(point) /\ UNCHANGED history

Next == Play \/ UndoCall

Spec == Init /\ [][Next]_vars

----------------------------------------------------------------------------
(* Boards for the scans: two straight segments of stones laid on the empty  *)
(* board of size FIVE, the second over the first.  A segment starts at any  *)
(* cell, runs along one of the four axes for up to FIVE cells (cut at the   *)
(* edge), and the second one may also be a segment of EMPTY cells.          *)

Axes == { <<0, 1>>, <<1, 0>>, <<1, 1>>, <<1, -1>> }

Segment(sz, row, col, axis) ==
    { CoordToPoint(sz, row + k * axis[1], col + k * axis[2]) : k \in
        { j \in 0 .. (FIVE - 1) :
            /\ row + j * axis[1] \in 1 .. sz
            /\ col + j * axis[2] \in 1 .. sz } }

Segments(sz) == { Segment(sz, row, col, axis) : row \in 1 .. sz, col \in 1 .. sz, axis \in Axes }

Overlay(b, seg, color) == [p \in DOMAIN b |-> IF p \in seg THEN color ELSE b[p]]

ScanBoards(sz) ==
    LET empty == EmptyBoard(sz)
        segs == Segments(sz)
        first == { Overlay(empty, s1, c1) : s1 \in segs, c1 \in {BLACK, WHITE} }
    IN  { Overlay(b, s2, c2) : b \in first, s2 \in segs, c2 \in {EMPTY, BLACK, WHITE} }

ScanInit ==
    /\ size = FIVE
    /\ board \in ScanBoards(FIVE)
    /\ liberty_of = EmptyLiberty(FIVE)
    /\ current_player = BLACK
    /\ pre_board = EmptyBoard(FIVE)
    /\ pre_player = BLACK
    /\ last = NoCall
    /\ out = NoScan
    /\ SolverIdle
    /\ NoHistory
    /\ SearchIdle

----------------------------------------------------------------------------
(* SpecEnd: check_game_end_gomoku called on a board *)

CheckGameEnd ==
    /\ out.call = "none"
    /\ out' = [call |-> "check_game_end_gomoku", value |-> CheckGameEndGomoku(board)]
    /\ UNCHANGED <<size, board, current_player, liberty_of, last, pre_board, pre_player>>
    /\ UNCHANGED solverVars
    /\ UNCHANGED <<history, mc, monte_tree, mc_ret>>

NextEnd == CheckGameEnd

SpecEnd == ScanInit /\ [][NextEnd]_vars

\* the cell at (row, col), by coordinates
CellAt(b, row, col) == b[CoordToPoint(size, row, col)]

\* some line of FIVE consecutive cells along `axis`, all inside the board, holds
\* only stones of `color`
HasFiveAlong(b, color, axis) ==
    \E row \in 1 .. size, col \in 1 .. size :
        \A k \in 0 .. (FIVE - 1) :
            /\ row + k * axis[1] \in 1 .. size
            /\ col + k * axis[2] \in 1 .. size
            /\ CellAt(b, row + k * axis[1], col + k * axis[2]) = color

HasFive(b, color) == \E axis \in Axes : HasFiveAlong(b, color, axis)

\* C3: check_game_end_gomoku returns (True, color) if and only if some
\* horizontal, vertical or diagonal line of the board holds 5 consecutive cells
\* of one stone color, the reported color has such a run, and it returns
\* (False, None) otherwise.
C3_GameEndIffFive ==
    out.call = "check_game_end_gomoku" =>
        /\ out.value.end \in {"True", "False"}
        /\ out.value.end = "True" <=> (HasFive(board, BLACK) \/ HasFive(board, WHITE))
        /\ out.value.end = "True" =>
              /\ IsBlackWhite(out.value.winner)
              /\ HasFive(board, out.value.winner)
        /\ out.value.end = "False" => out.value.winner = PASS

\* a diagonal five of BLACK was reported on a board that also holds WHITE stones
C3_Witness ==
    /\ out.call = "check_game_end_gomoku"
    /\ out.value = [end |-> "True", winner |-> BLACK]
    /\ HasFiveAlong(board, BLACK, <<1, -1>>)
    /\ ~HasFiveAlong(board, BLACK, <<0, 1>>)
    /\ ~HasFiveAlong(board, BLACK, <<1, 0>>)
    /\ PointsOfColor(board, WHITE) # {}

----------------------------------------------------------------------------
(* SpecOrder: order_the_point called on a board *)

OrderCall(color) ==
    /\ out.call = "none"
    /\ \E r \in {OrderThePoint(board, liberty_of, color)} :
       /\ out' = [call |-> "order_the_point", color |-> color,
                  value |-> r.moves, err |-> r.err]
       /\ liberty_of' = r.lo
    /\ UNCHANGED <<size, board, current_player, last, pre_board, pre_player>>
    /\ UNCHANGED solverVars
    /\ UNCHANGED <<history, mc, monte_tree, mc_ret>>

NextOrder == \E color \in {BLACK, WHITE} : OrderCall(color)

\* the boards order_the_point is called on: lines of four or five cells, one
\* laid over another
LongLines(sz) == { s \in Segments(sz) : Cardinality(s) >= FIVE - 1 }

OrderBoards(sz) ==
    LET empty == EmptyBoard(sz)
        segs == LongLines(sz)
        first == { Overlay(empty, s1, c1) : s1 \in segs, c1 \in {BLACK, WHITE} }
    IN  { Overlay(b, s2, c2) : b \in first, s2 \in segs, c2 \in {EMPTY, BLACK, WHITE} }

OrderInit ==
    /\ size = FIVE
    /\ board \in OrderBoards(FIVE)
    /\ liberty_of = EmptyLiberty(FIVE)
    /\ current_player = BLACK
    /\ pre_board = EmptyBoard(FIVE)
    /\ pre_player = BLACK
    /\ last = NoCall
    /\ out = NoScan
    /\ SolverIdle
    /\ NoHistory
    /\ SearchIdle

SpecOrder == OrderInit /\ [][NextOrder]_vars

\* C10: order_the_point(color) returns a sequence that contains every
\* currently EMPTY point exactly once and contains no point that is not EMPTY.
\* (The returned list is the groups in order; each point is in one group only.)
C10_OrderCoversEmptyOnce ==
    out.call = "order_the_point" =>
        /\ ~out.err
        /\ GroupPoints(out.value) = PointsOfColor(board, EMPTY)
        /\ \A i, j \in 1 .. Len(out.value) : i # j => out.value[i] \cap out.value[j] = {}

\* a list that starts with a cell completing a five of the mover, which the
\* scan for runs of 3 finds again (so that it had to be filtered out), and that
\* goes on with at least two more groups
C10_Witness ==
    /\ out.call = "order_the_point"
    /\ Len(out.value) >= 3
    /\ LET stone == IF out.color = 2 THEN WHITE ELSE BLACK IN
       /\ \E p \in out.value[1] : HasFive([board EXCEPT ![p] = stone], stone)
       /\ \E t \in PointsOfColor(board, stone) :
             CheckN(board, liberty_of, t, 3).pts \cap out.value[1] # {}

----------------------------------------------------------------------------
(* SpecFour: open_four called on a board *)

\* final_check(first, second, points, empty, count), by the truth of what it
\* returns (None where no branch returns)
FinalCheck_oneEnd(first, second, points, empty, count) ==
    IF first THEN count >= points /\ empty = 1
    ELSE IF second THEN count >= points /\ empty >= 1
    ELSE count >= points

FinalCheck(first, second, points, empty, count) ==
    IF first THEN count >= points /\ empty = 1
    ELSE IF second THEN count >= points /\ empty = 2
    ELSE count >= points

\* straight_check(point, shift, color, points, empty1, empty2): the stones of
\* `color` next to point in both directions are counted without a cap, and
\* emp_cell counts the ends of the run that are EMPTY
StraightCheck(b, point, shift, color, points, empty1, empty2) ==
    Bind(WalkCount(b, point, shift, color, 1, maxpoint), LAMBDA c1 :
    Bind(WalkCount(b, point, -shift, color, c1, maxpoint), LAMBDA c2 :
    Bind((IF b[point + c1 * shift] = EMPTY THEN 1 ELSE 0)
           + (IF b[point - (c2 - c1 + 1) * shift] = EMPTY THEN 1 ELSE 0), LAMBDA emp_cell :
         FinalCheck(empty1, empty2, points, emp_cell, c2))))

OpenFour_firstAxis(b, color) ==
    SelectSeq(Where1d(b, EMPTY),
              LAMBDA point : StraightCheck(b, point, Shifts[1], color, FIVE - 1, FALSE, TRUE))

\* open_four(color): the list found_points
OpenFour(b, color) ==
    SelectSeq(Where1d(b, EMPTY),
              LAMBDA point : \E i \in 1 .. 4 :
                  StraightCheck(b, point, Shifts[i], color, FIVE - 1, FALSE, TRUE))

\* the boards open_four is called on have FourSize rows and columns
FourSize == 6

\* a line of four or five stones of one color, with a segment of one or two
\* cells at the edge emptied or given to the other color
FourBoards(sz) ==
    { Overlay(Overlay(EmptyBoard(sz), s1, c1), s2, c2) :
        s1 \in LongLines(sz), c1 \in {BLACK},
        s2 \in { s \in Segments(sz) : Cardinality(s) <= 2 }, c2 \in {EMPTY, WHITE} }

FourInit ==
    /\ size = FourSize
    /\ board \in FourBoards(FourSize)
    /\ liberty_of = EmptyLiberty(FourSize)
    /\ current_player = BLACK
    /\ pre_board = EmptyBoard(FourSize)
    /\ pre_player = BLACK
    /\ last = NoCall
    /\ out = NoScan
    /\ SolverIdle
    /\ NoHistory
    /\ SearchIdle

OpenFourCall(color) ==
    /\ out.call = "none"
    /\ out' = [call |-> "open_four", color |-> color, value |-> OpenFour(board, color)]
    /\ UNCHANGED <<size, board, current_player, liberty_of, last, pre_board, pre_player>>
    /\ UNCHANGED solverVars
    /\ UNCHANGED <<history, mc, monte_tree, mc_ret>>

NextFour == \E color \in {BLACK, WHITE} : OpenFourCall(color)

SpecFour == FourInit /\ [][NextFour]_vars

\* the points open_four returned
FourPoints == { out.value[i] : i \in 1 .. Len(out.value) }

\* row `row` reads .XXX. in its columns 1 to 5, X being the color asked for
ThreeInRow(row) ==
    /\ out.call = "open_four"
    /\ CellAt(board, row, 1) = EMPTY
    /\ \A col \in 2 .. 4 : CellAt(board, row, col) = out.color
    /\ CellAt(board, row, 5) = EMPTY

ByOtherAxis(point) ==
    \E i \in 2 .. 4 : StraightCheck(board, point, Shifts[i], out.color, FIVE - 1, FALSE, TRUE)

OpenRun(p, d, n, ends) ==
    \E lo \in 0 .. (size - 1) :
        /\ \A k \in 1 .. lo : board[p - k * d] = out.color
        /\ board[p - (lo + 1) * d] # out.color
        /\ \E hi \in 0 .. (size - 1 - lo) :
              /\ \A k \in 1 .. hi : board[p + k * d] = out.color
              /\ board[p + (hi + 1) * d] # out.color
              /\ lo + hi + 1 >= n
              /\ Cardinality({ e \in {p - (lo + 1) * d, p + (hi + 1) * d} :
                                 board[e] = EMPTY }) >= ends

OpenRunPoints(ends) ==
    { p \in PointsOfColor(board, EMPTY) : \E i \in 1 .. 4 : OpenRun(p, Shifts[i], FIVE - 1, ends) }

----------------------------------------------------------------------------
(* Claims about play_move_gomoku and undo, checked under Spec *)

LastPlayOccupied ==
    /\ last.op = "play"
    /\ IsBlackWhite(last.color)
    /\ last.point # PASS
    /\ pre_board[last.point] # EMPTY

\* C1: play_move_gomoku(point, color) on a cell that is not EMPTY (a stone of
\* either color or a BORDER cell) returns False and leaves the whole grid and
\* current_player as they were before the call.
C1_OccupiedPlayFails ==
    LastPlayOccupied =>
        /\ last.ret = "False"
        /\ board = pre_board
        /\ current_player = pre_player

\* a rejected play on a stone, and a rejected play on a BORDER cell, have happened
C1_Witness ==
    /\ LastPlayOccupied
    /\ last.ret = "False"
    /\ IsBlackWhite(pre_board[last.point])
    /\ last.color # pre_board[last.point]
    /\ pre_player = last.color

LastUndoAfterPlay ==
    /\ last.op = "undo"
    /\ last.after \in {"True", "False"}

\* C2 as stated: for every on-board point p and every color c, play_move_gomoku(p, c)
\* followed by undo(p) leaves the grid equal, cell for cell, to the grid before
\* the play.
C2_PlayUndoRestores_AnyPoint ==
    LastUndoAfterPlay => board = pre_board

\* C2 amended: when play_move_gomoku(p, c) succeeded (p was EMPTY), the undo(p)
\* that follows it leaves the grid equal, cell for cell, to the grid before the
\* play.
C2_PlayUndoRestores ==
    (LastUndoAfterPlay /\ last.after = "True") => board = pre_board

\* an undo has followed a successful play on a board that already held a stone
C2_Witness ==
    /\ LastUndoAfterPlay
    /\ last.after = "True"
    /\ StoneCount(pre_board) > 0
    /\ board = pre_board

LastPlayInvalid ==
    /\ last.op = "play"
    /\ (last.point = PASS \/ ~IsBlackWhite(last.color))

\* C14: play_move_gomoku called with the PASS point, or with a color that is
\* neither BLACK nor WHITE, returns False without raising, and leaves the grid
\* and current_player unchanged.
C14_InvalidPlayReturnsFalse ==
    LastPlayInvalid =>
        /\ last.ret = "False"
        /\ board = pre_board
        /\ current_player = pre_player

\* a play of PASS by the player to move has ended with AssertionError
C14_Failure ==
    /\ LastPlayInvalid
    /\ last.point = PASS
    /\ last.color = pre_player
    /\ last.ret = "AssertionError"

LastPlaySucceeded ==
    /\ last.op = "play"
    /\ last.ret = "True"

\* C15 as stated: after every successful play_move_gomoku(point, color),
\* current_player is the opposite of its value before the call, whatever the
\* color played and whatever was played before.
C15_PlayFlipsPlayer ==
    LastPlaySucceeded => current_player = Opponent(pre_player)

\* C15 amended: after every successful play_move_gomoku(point, color),
\* current_player is the opponent of the color played; it is the opposite of
\* its value before the call exactly when the color played was the player to
\* move.
C15_PlaySetsOpponent ==
    LastPlaySucceeded =>
        /\ current_player = Opponent(last.color)
        /\ (current_player = Opponent(pre_player)) <=> (last.color = pre_player)

\* a color has played successfully twice in a row
C15_Witness ==
    /\ LastPlaySucceeded
    /\ StoneCount(pre_board) > 0
    /\ last.color # pre_player
    /\ current_player = pre_player

----------------------------------------------------------------------------
(* SpecHistory: play_move_gomoku and undo with the calls counted.  applied  *)
(* holds the points of the successful plays not yet undone, oldest first;   *)
(* ordered says that every undo so far took the last of them.               *)

MaxCalls == 4

PlayCounted(point, color) ==
    /\ history.plays + history.undos < MaxCalls
    /\ PlayMoveGomoku(point, color)
    /\ history' = IF PlayResult(board, point, color) = "True"
                  THEN [history EXCEPT !.applied = Append(@, point), !.plays = @ + 1]
                  ELSE history

UndoCounted(point) ==
    /\ history.plays + history.undos < MaxCalls
    /\ Undo(point)
    /\ LET n == Len(history.applied)
           top == n > 0 /\ history.applied[n] = point
       IN  history' = [applied |-> IF top THEN SubSeq(history.applied, 1, n - 1)
                                  ELSE history.applied,
                       plays |-> history.plays,
                       undos |-> history.undos + 1,
                       ordered |-> history.ordered /\ top]

NextHistory ==
    \/ \E point \in Indices \cup {PASS}, color \in {EMPTY, BLACK, WHITE} :
          PlayCounted(point, color)
    \/ \E point \in OnBoard : UndoCounted(point)

SpecHistory == Init /\ [][NextHistory]_vars

\* C16: after any sequence of play_move_gomoku and undo calls in which every
\* undo targets the most recently applied move that is not yet undone, the
\* number of BLACK and WHITE cells is the number of successful plays minus
\* the number of undos, every cell holds one of EMPTY, BLACK, WHITE, BORDER,
\* and every border cell is still BORDER.
C16_StoneCount ==
    history.ordered =>
        /\ StoneCount(board) = history.plays - history.undos
        /\ \A p \in Indices : board[p] \in {EMPTY, BLACK, WHITE, BORDER}
        /\ \A p \in Indices \ OnBoard : board[p] = BORDER

\* two plays and an undo of the second one, then a rejected play on a border
\* cell
C16_Witness ==
    /\ history.ordered
    /\ history.plays = 2
    /\ history.undos = 1
    /\ StoneCount(board) = 1
    /\ last.op = "play"
    /\ last.point \in Indices \ OnBoard
    /\ last.ret = "False"

----------------------------------------------------------------------------
(* SpecSolve: the minimax solver of the GTP connection.  An invocation of  *)
(* minimax is a frame of `stack`; its steps are its entry (the checks      *)
(* before the loop), the trial of one candidate, and the code after the    *)
(* recursive call returns.                                                 *)

\* Bound on the EMPTY cells of the positions solved.
MaxEmpty == 3

\* A fully occupied board without a line of five, rows listed from row 1
BaseRows ==
    LET X == BLACK
        O == WHITE
    IN  << <<X, X, X, X, O>>,
           <<X, O, O, X, O>>,
           <<X, O, O, O, O>>,
           <<X, O, X, X, X>>,
           <<O, O, X, X, O>> >>

BaseBoard ==
    LET cells == OnBoardOf(FIVE) IN
    [p \in 0 .. (MaxPointOf(FIVE) - 1) |->
        IF p \in cells THEN BaseRows[p \div NSof(FIVE)][p % NSof(FIVE)] ELSE BORDER]

\* the cells that the positions solved leave EMPTY, as (row, col)
Holes == { <<1, 5>>, <<4, 5>>, <<1, 2>>, <<3, 3>>, <<5, 1>>, <<2, 4>> }

HolePoints == { CoordToPoint(FIVE, h[1], h[2]) : h \in Holes }

SolveBoards ==
    LET base == BaseBoard IN
    { [p \in DOMAIN base |-> IF p \in S THEN EMPTY ELSE base[p]] :
        S \in { T \in SUBSET HolePoints : Cardinality(T) <= MaxEmpty } }

\* the fully occupied boards solved: the base board mirrored, transposed and
\* with the colors exchanged
Mirror(b, rows, cols, swap) ==
    LET cells == OnBoardOf(FIVE)
        n == NSof(FIVE)
    IN  [p \in DOMAIN b |->
            IF p \in cells
            THEN LET r == IF rows THEN n - (p \div n) ELSE p \div n
                     c == IF cols THEN n - (p % n) ELSE p % n
                 IN  b[IF swap THEN c * n + r ELSE r * n + c]
            ELSE b[p]]

Recolor(b, change) ==
    [p \in DOMAIN b |-> IF change /\ b[p] \in {BLACK, WHITE} THEN Opponent(b[p]) ELSE b[p]]

FullBoards ==
    LET base == BaseBoard IN
    { Recolor(Mirror(base, rows, cols, swap), change) :
        rows \in BOOLEAN, cols \in BOOLEAN, swap \in BOOLEAN, change \in BOOLEAN }

SolveInit ==
    /\ size = FIVE
    /\ board \in SolveBoards \cup FullBoards
    /\ liberty_of = EmptyLiberty(FIVE)
    /\ current_player = BLACK
    /\ pre_board = board
    /\ pre_player = BLACK
    /\ last = NoCall
    /\ out = NoScan
    /\ time = ModuleTime
    /\ toPlay \in {"b", "w"}
    /\ late = FALSE
    /\ stack = <<>>
    /\ ret = NoResult
    /\ status = "idle"
    /\ call_board = board
    /\ call_player = current_player
    /\ NoHistory
    /\ SearchIdle

\* whosturn(turn)
WhosTurn(turn) == turn = "or"

\* a minimax invocation that has not run yet
Frame(color, turn) ==
    [color |-> color, turn |-> turn, pc |-> "entry", groups |-> <<>>, move |-> PASS,
     draw_list |-> <<>>, late_entry |-> FALSE]

Top == stack[Len(stack)]

\* `return`: the invocation ends; the outermost one ends solve
Leave(value) ==
    /\ ret' = value
    /\ stack' = SubSeq(stack, 1, Len(stack) - 1)
    /\ status' = IF Len(stack) = 1 THEN "solved" ELSE status

\* an exception nobody catches: every invocation in progress is abandoned
\* where it stands, and get_cmd re-raises
Raise ==
    /\ ret' = NoResult
    /\ stack' = <<>>
    /\ status' = "solve_raised"

\* timelimit_cmd(n)
TimelimitCmd(n) ==
    /\ status = "idle"
    /\ IF n >= MinLimit /\ n <= MaxLimit
       THEN time' = NumberTime(n) /\ UNCHANGED status
       ELSE status' = "timelimit_raised" /\ UNCHANGED time
    /\ UNCHANGED <<size, board, current_player, liberty_of, last, pre_board, pre_player, out,
                   toPlay, late, stack, ret, call_board, call_player>>
    /\ UNCHANGED <<history, mc, monte_tree, mc_ret>>

\* solve_cmd up to the call of minimax(self.board, color, "or")
SolveCmd ==
    /\ status = "idle"
    /\ status' = "solving"
    /\ late' = FALSE
    /\ stack' = <<Frame(IF toPlay = "b" THEN 1 ELSE 2, "or")>>
    /\ ret' = NoResult
    /\ call_board' = board
    /\ call_player' = current_player
    /\ UNCHANGED <<size, board, current_player, liberty_of, last, pre_board, pre_player, out,
                   time, toPlay>>
    /\ UNCHANGED <<history, mc, monte_tree, mc_ret>>

\* the processor time used since solve_cmd passes the limit
Tick ==
    /\ status = "solving"
    /\ ~time.module
    /\ ~late
    /\ late' = TRUE
    /\ UNCHANGED <<size, board, current_player, liberty_of, last, pre_board, pre_player, out,
                   time, toPlay, stack, ret, status, call_board, call_player>>
    /\ UNCHANGED <<history, mc, monte_tree, mc_ret>>

\* minimax when the game is over at entry
EnterFinished(f, e) ==
    IF WhosTurn(f.turn)
    THEN IF e.winner # f.color THEN Result("False", FalseMove) ELSE Result("True", TrueMove)
    ELSE Result("False", FalseMove)

\* `if not moves: return "draw", False`
NoMoves_noDraw == Result("False", FalseMove)

NoMoves == Result("draw", FalseMove)

\* minimax from its first line to the head of the loop
MinimaxEnter ==
    /\ status = "solving"
    /\ Top.pc = "entry"
    /\ \E e \in {CheckGameEndGomoku(board)} :
          IF e.end = "AssertionError" THEN Raise /\ UNCHANGED liberty_of
          ELSE IF e.end = "True" THEN Leave(EnterFinished(Top, e)) /\ UNCHANGED liberty_of
          ELSE \E o \in {OrderThePoint(board, liberty_of, Top.color)} :
                  /\ liberty_of' = o.lo
                  /\ IF o.err THEN Raise
                     ELSE IF o.moves = <<>> THEN Leave(NoMoves)
                     ELSE /\ stack' = [stack EXCEPT ![Len(stack)] =
                                          [Top EXCEPT !.pc = "loop", !.groups = o.moves,
                                                      !.late_entry = late]]
                          /\ UNCHANGED <<ret, status>>
    /\ UNCHANGED <<size, board, current_player, last, pre_board, pre_player, out,
                   time, toPlay, late, call_board, call_player>>
    /\ UNCHANGED <<history, mc, monte_tree, mc_ret>>

\* GoBoardUtil.generate_legal_moves_gomoku(board): the EMPTY points
GenerateLegalMovesGomoku(b) == PointsOfColor(b, EMPTY)

TryResult_lossCarriesMove(f, e, b1, move) ==
    IF e.end = "True" /\ WhosTurn(f.turn) THEN Result("True", move)
    ELSE IF e.end = "True" /\ e.winner = f.color THEN Result("False", move)
    ELSE IF GenerateLegalMovesGomoku(b1) = {} THEN Result("draw", move)
    ELSE NoResult

\* the loop body from play_move_gomoku to the recursive call: the value it
\* returns, or "none" when it goes on to recurse.  e is check_game_end_gomoku
\* after the move, b1 the grid after the move.
TryResult(f, e, b1, move) ==
    IF e.end = "True" /\ WhosTurn(f.turn) THEN Result("True", move)
    ELSE IF e.end = "True" /\ e.winner = f.color THEN Result("False", FalseMove)
    ELSE IF GenerateLegalMovesGomoku(b1) = {} THEN Result("draw", move)
    ELSE NoResult

\* a loop that never moves on to its next candidate
Rest_keepsMove(groups, move) == groups

\* the candidates left after `move` is taken from the head group
Rest(groups, move) ==
    IF Head(groups) = {move} THEN Tail(groups)
    ELSE <<Head(groups) \ {move}>> \o Tail(groups)

\* one pass of `for move in moves` up to the recursive call; inside a group
\* the order is that of a Python set, so any of its points may come next
MinimaxTry ==
    /\ status = "solving"
    /\ Top.pc = "loop"
    /\ \E move \in Head(Top.groups) :
       \E played \in {board[move] = EMPTY} :
       \E b1 \in {IF played THEN [board EXCEPT ![move] = Top.color] ELSE board} :
       \E e \in {CheckGameEndGomoku(b1)} :
       \E r \in {TryResult(Top, e, b1, move)} :
          /\ current_player' = IF played THEN Opponent(Top.color) ELSE current_player
          /\ IF e.end = "AssertionError" THEN board' = b1 /\ Raise
             ELSE IF r.outcome # "none" THEN board' = UndoBoard(b1, move) /\ Leave(r)
             ELSE /\ board' = b1
                  /\ stack' = Append([stack EXCEPT ![Len(stack)] =
                                         [Top EXCEPT !.pc = "wait", !.move = move,
                                                     !.groups = Rest(Top.groups, move)]],
                                     Frame(Opponent(Top.color),
                                           IF WhosTurn(Top.turn) THEN "and" ELSE "or"))
                  /\ UNCHANGED <<ret, status>>
    /\ UNCHANGED <<size, liberty_of, last, pre_board, pre_player, out,
                   time, toPlay, late, call_board, call_player>>
    /\ UNCHANGED <<history, mc, monte_tree, mc_ret>>

\* the end of the loop: `if draw_list != []: return "draw", draw_list[0]` ...
LoopEnd(turn, draw_list) ==
    IF draw_list # <<>> THEN Result("draw", draw_list[1])
    ELSE IF WhosTurn(turn) THEN Result("False", FalseMove)
    ELSE Result("True", TrueMove)

\* the loop body after undo(move): mm is what the recursive call returned.
\* `self.time_Used > self.time` raises TypeError when self.time is the module.
AfterChild_orSwallows(f, mm, limit, isLate) ==
    IF limit.module THEN [kind |-> "raise", value |-> NoResult, draw_list |-> f.draw_list]
    ELSE IF isLate /\ ~WhosTurn(f.turn)
    THEN [kind |-> "return", value |-> Result("unknown", FalseMove), draw_list |-> f.draw_list]
    ELSE IF WhosTurn(f.turn) /\ mm.outcome = "True"
    THEN [kind |-> "return", value |-> Result("True", f.move), draw_list |-> f.draw_list]
    ELSE IF ~WhosTurn(f.turn) /\ mm.outcome = "False"
    THEN [kind |-> "return", value |-> Result("False", FalseMove), draw_list |-> f.draw_list]
    ELSE LET dl == IF mm.outcome \in {"draw", "unknown"} THEN Append(f.draw_list, f.move)
                   ELSE f.draw_list
         IN  IF f.groups # <<>>
             THEN [kind |-> "continue", value |-> NoResult, draw_list |-> dl]
             ELSE [kind |-> "return", value |-> LoopEnd(f.turn, dl), draw_list |-> dl]

\* a node that goes on to its next candidate whatever the child returned
AfterChild_noCutOff(f, mm, limit, isLate) ==
    IF limit.module THEN [kind |-> "raise", value |-> NoResult, draw_list |-> f.draw_list]
    ELSE IF isLate
    THEN [kind |-> "return", value |-> Result("unknown", FalseMove), draw_list |-> f.draw_list]
    ELSE LET dl == IF mm.outcome = "draw" THEN Append(f.draw_list, f.move)
                   ELSE f.draw_list
         IN  IF mm.outcome = "unknown"
             THEN [kind |-> "return", value |-> Result("unknown", FalseMove), draw_list |-> dl]
             ELSE IF f.groups # <<>>
             THEN [kind |-> "continue", value |-> NoResult, draw_list |-> dl]
             ELSE [kind |-> "return", value |-> LoopEnd(f.turn, dl), draw_list |-> dl]

AfterChild(f, mm, limit, isLate) ==
    IF limit.module THEN [kind |-> "raise", value |-> NoResult, draw_list |-> f.draw_list]
    ELSE IF isLate
    THEN [kind |-> "return", value |-> Result("unknown", FalseMove), draw_list |-> f.draw_list]
    ELSE IF WhosTurn(f.turn) /\ mm.outcome = "True"
    THEN [kind |-> "return", value |-> Result("True", f.move), draw_list |-> f.draw_list]
    ELSE IF ~WhosTurn(f.turn) /\ mm.outcome = "False"
    THEN [kind |-> "return", value |-> Result("False", FalseMove), draw_list |-> f.draw_list]
    ELSE LET dl == IF mm.outcome = "draw" THEN Append(f.draw_list, f.move)
                   ELSE f.draw_list
         IN  IF mm.outcome = "unknown"
             THEN [kind |-> "return", value |-> Result("unknown", FalseMove), draw_list |-> dl]
             ELSE IF f.groups # <<>>
             THEN [kind |-> "continue", value |-> NoResult, draw_list |-> dl]
             ELSE [kind |-> "return", value |-> LoopEnd(f.turn, dl), draw_list |-> dl]

\* the loop body from the return of the recursive call on, and the code after
\* the loop when this was the last candidate
MinimaxResume ==
    /\ status = "solving"
    /\ Top.pc = "wait"
    /\ board' = UndoBoard(board, Top.move)
    /\ \E a \in {AfterChild(Top, ret, time, late)} :
          IF a.kind = "raise" THEN Raise
          ELSE IF a.kind = "return" THEN Leave(a.value)
          ELSE /\ stack' = [stack EXCEPT ![Len(stack)] =
                               [Top EXCEPT !.pc = "loop", !.draw_list = a.draw_list]]
               /\ ret' = NoResult
               /\ UNCHANGED status
    /\ UNCHANGED <<size, current_player, liberty_of, last, pre_board, pre_player, out,
                   time, toPlay, late, call_board, call_player>>
    /\ UNCHANGED <<history, mc, monte_tree, mc_ret>>

NextSolve ==
    \/ \E n \in {MinLimit - 1, MinLimit} : TimelimitCmd(n)
    \/ SolveCmd
    \/ Tick
    \/ MinimaxEnter
    \/ MinimaxTry
    \/ MinimaxResume

SpecSolve == SolveInit /\ [][NextSolve]_vars

----------------------------------------------------------------------------
(* Claims about the solver, checked under SpecSolve *)

\* solve has ended, by a return of the outermost minimax or by an exception
SolveEnded == status \in {"solved", "solve_raised"}

\* the color solve_cmd searches for
SolveColor == IF toPlay = "b" THEN BLACK ELSE WHITE

NoFive(b) == ~HasFive(b, BLACK) /\ ~HasFive(b, WHITE)

\* the value of the game for `root` when `mover` is to move on b, a grid
\* without a five: 1 when root can force a five, -1 when the opponent can,
\* 0 otherwise (the board fills up first)
RECURSIVE GameValue(_, _, _)
GameValue(b, mover, root) ==
    LET empties == PointsOfColor(b, EMPTY)
        After(p) ==
            LET b1 == [b EXCEPT ![p] = mover] IN
            IF HasFive(b1, mover) THEN IF mover = root THEN 1 ELSE -1
            ELSE GameValue(b1, Opponent(mover), root)
        values == { After(p) : p \in empties }
    IN  IF empties = {} THEN 0
        ELSE IF mover = root
        THEN CHOOSE v \in values : \A w \in values : w <= v
        ELSE CHOOSE v \in values : \A w \in values : v <= w

ValueOutcome(v) == IF v = 1 THEN "True" ELSE IF v = 0 THEN "draw" ELSE "False"

\* C4: for every position without a five, when the time limit is never
\* exceeded, minimax(board, color, 'or') returns True exactly when the side to
\* move can force a five, False exactly when the opponent can, and 'draw'
\* exactly when neither can.
C4_MinimaxValue ==
    (SolveEnded /\ ~late /\ NoFive(call_board)) =>
        /\ status = "solved"
        /\ ret.outcome = ValueOutcome(GameValue(call_board, SolveColor, SolveColor))

\* the same once timelimit_cmd has stored a number in self.time
C4_MinimaxValue_NumberLimit ==
    (SolveEnded /\ ~time.module /\ ~late /\ NoFive(call_board)) =>
        /\ status = "solved"
        /\ ret.outcome = ValueOutcome(GameValue(call_board, SolveColor, SolveColor))

\* the EMPTY cells that complete a five for BLACK next to four consecutive
\* BLACK stones on one axis
CompletingCells(b) ==
    { p \in PointsOfColor(b, EMPTY) :
        \E d \in {1, NSof(FIVE), NSof(FIVE) + 1, NSof(FIVE) - 1} :
            \/ \A k \in 1 .. (FIVE - 1) :
                  p + k * d \in DOMAIN b /\ b[p + k * d] = BLACK
            \/ \A k \in 1 .. (FIVE - 1) :
                  p - k * d \in DOMAIN b /\ b[p - k * d] = BLACK }

\* C5: for every position in which BLACK has four consecutive stones on one
\* axis, the cell that would complete five is EMPTY and no five exists yet,
\* solving with BLACK to move returns win together with that completing cell.
C5_FourIsWon ==
    (SolveEnded /\ toPlay = "b" /\ NoFive(call_board) /\ CompletingCells(call_board) # {}) =>
        /\ status = "solved"
        /\ ret.outcome = "True"
        /\ ret.move \in CompletingCells(call_board)

\* the same for the completing cells that is_legal accepts for BLACK
C5_FourIsWon_LegalCell ==
    (/\ SolveEnded /\ toPlay = "b" /\ NoFive(call_board)
     /\ \E p \in CompletingCells(call_board) :
           IsLegal(call_board, EmptyLiberty(FIVE), p, BLACK).legal) =>
        /\ status = "solved"
        /\ ret.outcome = "True"
        /\ ret.move \in CompletingCells(call_board)

\* C6: for every fully occupied board that contains no line of 5, solving for
\* either color returns the outcome draw with no move.
C6_FullBoardDraw ==
    (SolveEnded /\ PointsOfColor(call_board, EMPTY) = {} /\ NoFive(call_board)) =>
        /\ status = "solved"
        /\ ret = Result("draw", FalseMove)

C6_Witness ==
    /\ status = "solved"
    /\ toPlay = "w"
    /\ PointsOfColor(call_board, EMPTY) = {}
    /\ call_board # BaseBoard
    /\ NoFive(call_board)
    /\ ret = Result("draw", FalseMove)

\* C7: on every exit path of minimax every stone the search placed has been
\* removed: when the top-level solve ends, the grid equals the grid at the
\* time of the call.
C7_GridRestored == SolveEnded => board = call_board

\* the same for the solves that end by a return
C7_GridRestored_OnReturn == status = "solved" => board = call_board

\* C8: if any minimax invocation returns unknown, every ancestor returns
\* unknown without trying a further sibling, so solve reports unknown: once an
\* invocation has returned unknown, every step that follows is the return of
\* unknown by the invocation that was waiting for it.
C8_UnknownPropagates ==
    [][ret.outcome = "unknown" =>
          /\ ret'.outcome = "unknown"
          /\ stack' = SubSeq(stack, 1, Len(stack) - 1)
          /\ status' \in {"solving", "solved"}]_vars

\* an invocation has returned unknown to a caller that has candidates left
C8_Witness ==
    /\ status = "solving"
    /\ ret.outcome = "unknown"
    /\ Len(stack) >= 1
    /\ Top.pc = "wait"
    /\ Top.groups # <<>>

\* C9: every minimax invocation that is entered when the elapsed time already
\* exceeds the limit returns unknown immediately, without applying any move
\* and without recursing: no invocation entered late gets to its loop.
C9_LateEntryReturnsAtOnce ==
    \A i \in 1 .. Len(stack) : stack[i].late_entry => stack[i].pc \notin {"loop", "wait"}

\* where each of the claims above that the solver does not meet fails

\* solve raised although the side to move can force a five
C4_Failure ==
    /\ status = "solve_raised"
    /\ NoFive(call_board)
    /\ GameValue(call_board, SolveColor, SolveColor) = 1

\* with a number as the limit, BLACK to move and a four to complete, solve
\* returned unknown
C5_Failure ==
    /\ status = "solved"
    /\ ~time.module
    /\ toPlay = "b"
    /\ CompletingCells(call_board) # {}
    /\ ret.outcome = "unknown"

\* solve ended with a stone of the search left on the grid
C7_Failure ==
    /\ status = "solve_raised"
    /\ board # call_board
    /\ \A p \in DOMAIN board : board[p] # call_board[p] => call_board[p] = EMPTY

\* an invocation entered after the limit has applied a move and recursed
C9_Failure ==
    \E i \in 1 .. Len(stack) : stack[i].late_entry /\ stack[i].pc = "wait"

\* C17: a result returned by minimax carries a move only when its outcome is
\* win or draw: a loss or unknown result carries False, never a point, and a
\* win or draw result that carries a point carries a cell that is EMPTY in
\* the position the invocation searched (the grid it leaves behind).
C17_MoveOnlyForWinOrDraw ==
    /\ ret.outcome \in {"False", "unknown"} => ret.move = FalseMove
    /\ (ret.outcome \in {"True", "draw"} /\ ret.move \notin {FalseMove, TrueMove}) =>
           /\ ret.move \in OnBoard
           /\ board[ret.move] = EMPTY

\* solve has returned a draw with a move found below the first level of the
\* search, and an inner invocation has returned a loss
C17_Witness ==
    /\ status = "solved"
    /\ ret.outcome = "draw"
    /\ ret.move \in OnBoard
    /\ Cardinality(GenerateLegalMovesGomoku(board)) >= 3

\* C20: when solve returns, with any outcome, the board's current_player
\* equals its value when solve was called.
C20_PlayerRestored ==
    status = "solved" => current_player = call_player

\* solve has returned a win and left the other color as the player to move
C20_Failure ==
    /\ status = "solved"
    /\ ret.outcome = "True"
    /\ board = call_board
    /\ current_player # call_player

----------------------------------------------------------------------------
(* SpecSearch: Monte_Carlo_Tree(simple_board, player2).  The caller's board *)
(* is `board` and `current_player`; every other board of the search is an  *)
(* object of its own, a record with the grid and the player to move.  The   *)
(* steps are the call up to the loop, one pass of the loop up to the        *)
(* candidates, one candidate, the alarm and the passing of the time limit.  *)

\* for i in range(5): new_move.append(random.choice(all_moves))
SampleSize == 5

\* sim_do(new_search_board.copy(), 50, player2)
PlayoutCount == 50

\* Bounds: the EMPTY cells of the board searched, and the passes of the loop.
MaxFree == 2
MaxRounds == 2

\* board_num(board): the digits of the cells, row by row
BoardNum(b) ==
    [i \in 1 .. size * size |->
        b[CoordToPoint(size, ((i - 1) \div size) + 1, ((i - 1) % size) + 1)]]

Copy_alias(b, player) == [ref |-> "caller", board |-> b, current_player |-> player]

\* SimpleGoBoard.copy(): a new object with a copy of the grid
Copy(b, player) == [ref |-> "fresh", board |-> b, current_player |-> player]

\* o.play_move_gomoku(point, color)
PlayOn(o, point, color) ==
    IF PlayResult(o.board, point, color) = "True"
    THEN [o EXCEPT !.board = [o.board EXCEPT ![point] = color],
                   !.current_player = Opponent(color)]
    ELSE o

\* what a call on the object o has done to the caller's board
Store(o) ==
    IF o.ref = "caller"
    THEN board' = o.board /\ current_player' = o.current_player
    ELSE UNCHANGED <<board, current_player>>

\* a generator that may name an occupied point
GenerateRandomMoveGomoku_anyPoint(b) == OnBoard

\* GoBoardUtil.generate_random_move_gomoku(board): any EMPTY point, PASS when
\* there is none
GenerateRandomMoveGomoku(b) ==
    IF GenerateLegalMovesGomoku(b) = {} THEN {PASS} ELSE GenerateLegalMovesGomoku(b)

\* sim(board, player1, player2): the values the playout can return, "raise"
\* when check_game_end_gomoku raises
RECURSIVE SimEnds(_, _, _)
SimEnds(b, player1, player2) ==
    Bind(CheckGameEndGomoku(b), LAMBDA e :
        IF e.end = "AssertionError" THEN {"raise"}
        ELSE IF e.end = "True" THEN {IF e.winner = player1 THEN "1" ELSE "0"}
        ELSE IF GenerateRandomMoveGomoku(b) = {PASS} THEN {"0"}
        ELSE UNION { SimEnds([b EXCEPT ![move] = player2], player1, Opponent(player2)) :
                        move \in GenerateRandomMoveGomoku(b) })

\* a ratio wins / loss, math.inf when loss is 0
Less(x, y) == x.wins * y.loss < y.wins * x.loss

\* sim_do(board, simulation, color): the values it can return.  The number
\* of won playouts is none, just over half, or all of them, as far as the
\* playouts allow.
SimDo(b, color) ==
    Bind(SimEnds(b, color, color), LAMBDA ends :
        { [raised |-> FALSE,
           ending |-> IF wins > PlayoutCount - wins
                      THEN [wins |-> wins, loss |-> PlayoutCount - wins]
                      ELSE [wins |-> 0, loss |-> 1]] :
            wins \in { w \in {0, PlayoutCount \div 2 + 1, PlayoutCount} :
                          /\ w > 0 => "1" \in ends
                          /\ w < PlayoutCount => "0" \in ends } }
        \cup { [raised |-> TRUE, ending |-> [wins |-> 0, loss |-> 1]] :
                  x \in ends \cap {"raise"} })

\* best_move(board, tree, top): the entries in the order of the dictionary
RECURSIVE BestFrom(_, _, _, _, _)
BestFrom(tree, top, i, best_ratio, best) ==
    IF i > Len(tree) THEN best
    ELSE IF tree[i].first = top /\ Less(best_ratio, tree[i].win)
    THEN BestFrom(tree, top, i + 1, tree[i].win, tree[i].move)
    ELSE BestFrom(tree, top, i + 1, best_ratio, best)

BestMove(tree, top) == BestFrom(tree, top, 1, [wins |-> 0, loss |-> 1], PASS)

\* monte_tree[spec_key] = new_state: a key already there keeps its place
Put(tree, entry) ==
    IF \E i \in 1 .. Len(tree) : tree[i].key = entry.key
    THEN [i \in 1 .. Len(tree) |-> IF tree[i].key = entry.key THEN entry ELSE tree[i]]
    ELSE Append(tree, entry)

\* the locals of the call at line 122
SearchStart(color) ==
    [pc |-> "loop", how |-> "none", start_move |-> PASS, player2 |-> color,
     new_move |-> Where1d(board, EMPTY), idx |-> 1, first |-> BoardNum(board),
     alarm |-> "set", over |-> FALSE, rounds |-> 0,
     call |-> [board |-> board, current_player |-> current_player]]

\* the call has ended: by `return`, through the handler, or with the process
Finish(how, move) ==
    /\ mc' = [mc EXCEPT !.pc = "done", !.how = how]
    /\ mc_ret' = move

Except_noFallback == Finish("except", mc.start_move)

\* except Exception: start_move unless it is None, else a random move
Except ==
    \E move \in (IF mc.start_move # PASS THEN {mc.start_move}
                 ELSE GenerateRandomMoveGomoku(board)) :
        Finish("except", move)

\* Monte_Carlo_Tree up to `try`
MctsCall(color) ==
    /\ mc.pc = "idle"
    /\ monte_tree' = <<>>
    /\ IF GenerateLegalMovesGomoku(board) = {}
       THEN /\ mc' = [SearchStart(color) EXCEPT !.pc = "done", !.how = "return"]
            /\ mc_ret' = PASS
       ELSE /\ mc' = SearchStart(color)
            /\ UNCHANGED mc_ret
    /\ UNCHANGED <<size, board, current_player, liberty_of, last, pre_board, pre_player, out,
                   history>>
    /\ UNCHANGED solverVars

\* the test of the loop, and its body up to `for move in new_move`.  In the
\* loop `while search in monte_tree`, search2 compares the states of the
\* tree with the string `first`, finds none equal and the loop is left.
MctsRound ==
    /\ mc.pc = "loop"
    /\ IF mc.over
       THEN Finish("return", mc.start_move) /\ UNCHANGED <<board, current_player>>
       ELSE /\ mc.rounds < MaxRounds
            /\ \E test \in {IF mc.start_move = PASS THEN Copy(board, current_player)
                            ELSE PlayOn(Copy(board, current_player), mc.start_move,
                                        mc.player2)} :
                  /\ Store(test)
                  /\ IF mc.start_move = PASS
                     THEN /\ mc' = [mc EXCEPT !.pc = "candidates", !.idx = 1,
                                              !.rounds = @ + 1]
                          /\ UNCHANGED mc_ret
                     ELSE IF GenerateLegalMovesGomoku(test.board) = {}
                     THEN Finish("return", mc.start_move)
                     ELSE \E sample \in [1 .. SampleSize ->
                                            GenerateLegalMovesGomoku(test.board)] :
                             /\ mc' = [mc EXCEPT !.pc = "candidates", !.idx = 1,
                                                 !.rounds = @ + 1,
                                                 !.player2 = Opponent(@),
                                                 !.new_move = sample]
                             /\ UNCHANGED mc_ret
    /\ UNCHANGED <<size, liberty_of, last, pre_board, pre_player, out, history, monte_tree>>
    /\ UNCHANGED solverVars

\* one pass of `for move in new_move`, and best_move after the last one.
\* BackProp walks from first to first_copy, which are the same key: it
\* changes nothing.
MctsCandidate ==
    /\ mc.pc = "candidates"
    /\ \E move \in {mc.new_move[mc.idx]} :
       \E new_search_board \in {PlayOn(Copy(board, current_player), move, mc.player2)} :
       \E r \in SimDo(new_search_board.board, mc.player2) :
          /\ Store(new_search_board)
          /\ IF r.raised THEN Except /\ UNCHANGED monte_tree
             ELSE \E tree \in {Put(monte_tree,
                                   [key |-> BoardNum(new_search_board.board), sim |-> 1,
                                    win |-> r.ending, first |-> mc.first, move |-> move])} :
                     /\ monte_tree' = tree
                     /\ mc' = IF mc.idx < Len(mc.new_move) THEN [mc EXCEPT !.idx = @ + 1]
                              ELSE [mc EXCEPT !.pc = "loop",
                                              !.start_move = BestMove(tree, mc.first)]
                     /\ UNCHANGED mc_ret
    /\ UNCHANGED <<size, liberty_of, last, pre_board, pre_player, out, history>>
    /\ UNCHANGED solverVars

\* signal.alarm(55) comes due.  The sources install no handler: what SIGALRM
\* does is the caller's choice.  A handler raises an exception into the
\* search, or the default action ends the process, or the signal is ignored.
MctsAlarm ==
    /\ mc.pc \in {"loop", "candidates"}
    /\ mc.alarm = "set"
    /\ \/ Except
       \/ mc' = [mc EXCEPT !.pc = "done", !.how = "killed"] /\ UNCHANGED mc_ret
       \/ mc' = [mc EXCEPT !.alarm = "off"] /\ UNCHANGED mc_ret
    /\ UNCHANGED <<size, board, current_player, liberty_of, last, pre_board, pre_player, out,
                   history, monte_tree>>
    /\ UNCHANGED solverVars

\* time.time() - start reaches 56, one second after the alarm
MctsTimeUp ==
    /\ mc.pc \in {"loop", "candidates"}
    /\ mc.alarm = "off"
    /\ ~mc.over
    /\ mc' = [mc EXCEPT !.over = TRUE]
    /\ UNCHANGED <<size, board, current_player, liberty_of, last, pre_board, pre_player, out,
                   history, monte_tree, mc_ret>>
    /\ UNCHANGED solverVars

NextSearch ==
    \/ \E color \in {BLACK, WHITE} : MctsCall(color)
    \/ MctsRound
    \/ MctsCandidate
    \/ MctsAlarm
    \/ MctsTimeUp

\* the boards searched: the base board of the solver with up to MaxFree of
\* three of its cells EMPTY
SearchBoards ==
    LET base == BaseBoard
        free == { CoordToPoint(FIVE, h[1], h[2]) : h \in { <<1, 5>>, <<5, 1>>, <<3, 3>> } }
    IN  { [p \in DOMAIN base |-> IF p \in S THEN EMPTY ELSE base[p]] :
            S \in { T \in SUBSET free : Cardinality(T) <= MaxFree } }

SearchInit ==
    /\ size = FIVE
    /\ board \in SearchBoards
    /\ liberty_of = EmptyLiberty(FIVE)
    /\ current_player = BLACK
    /\ pre_board = board
    /\ pre_player = BLACK
    /\ last = NoCall
    /\ out = NoScan
    /\ SolverIdle
    /\ NoHistory
    /\ SearchIdle

SpecSearch == SearchInit /\ [][NextSearch]_vars

\* Monte_Carlo_Tree has returned a move
SearchReturned == mc.pc = "done" /\ mc.how \in {"return", "except"}

\* C11: when Monte_Carlo_Tree returns (normally, at the time limit, or
\* through its exception handler), the caller's grid and current_player are
\* what they were at the call; trial moves and playouts go to copies.
C11_BoardNotMutated ==
    mc.pc # "idle" =>
        /\ board = mc.call.board
        /\ current_player = mc.call.current_player

\* the search has returned, through the handler, a move it evaluated in the
\* second pass of the loop, after playing its best move on a copy
C11_Witness ==
    /\ SearchReturned
    /\ mc.how = "except"
    /\ mc.rounds >= 2
    /\ mc.start_move # PASS
    /\ Len(monte_tree) >= 2
    /\ board = mc.call.board

\* C12: Monte_Carlo_Tree returns PASS if the board has no legal move, and
\* otherwise a legal move, a cell that is EMPTY on the caller's board.
C12_ReturnsLegalMove ==
    SearchReturned =>
        IF GenerateLegalMovesGomoku(mc.call.board) = {} THEN mc_ret = PASS
        ELSE mc_ret \in GenerateLegalMovesGomoku(mc.call.board)

\* the loop has ended at the time limit after candidates were evaluated, and
\* the search has returned PASS on a board with EMPTY cells
C12_Failure ==
    /\ SearchReturned
    /\ mc.how = "return"
    /\ mc.over
    /\ monte_tree # <<>>
    /\ GenerateLegalMovesGomoku(board) # {}
    /\ mc_ret = PASS

\* C13: no exception escapes Monte_Carlo_Tree: an exception raised during
\* the search is caught, and the call returns the last best move, or a
\* random legal move when there is none.
C13_ExceptionCaught ==
    (mc.pc = "done" /\ mc.how \notin {"return", "killed"}) =>
        /\ mc.how = "except"
        /\ IF mc.start_move # PASS THEN mc_ret = mc.start_move
           ELSE mc_ret \in GenerateLegalMovesGomoku(board)

\* an exception has ended the search before any best move was known, and a
\* random legal move has come back
C13_Witness ==
    /\ mc.pc = "done"
    /\ mc.how = "except"
    /\ mc.start_move = PASS
    /\ monte_tree # <<>>
    /\ mc_ret \in GenerateLegalMovesGomoku(board)

----------------------------------------------------------------------------
(* The time limit of a connection on which timelimit was never issued,     *)
(* checked under SpecSolve                                                 *)

\* C21: if no timelimit command has been issued since the connection was
\* created, solve finishes with a response (win, loss, draw or unknown) and
\* not with an error, also when the search has to recurse.
C21_DefaultLimitResponds ==
    (time.module /\ SolveEnded) => status = "solved"

\* no timelimit command was issued, the outermost minimax applied a move and
\* recursed, and solve ended with the exception of the comparison
C21_Failure ==
    /\ time.module
    /\ status = "solve_raised"
    /\ NoFive(call_board)
    /\ Cardinality(GenerateLegalMovesGomoku(call_board)) >= 2

----------------------------------------------------------------------------
(* SpecCut: the solver on positions with a double threat, where a child    *)
(* result decides a node that still has candidates                         *)

\* Bound on the EMPTY cells of these positions.
MaxCut == 4

\* Up to MaxCut of the cells (1,1), (1,5), (5,1), (3,4) emptied on a full
\* board without a five: BLACK on any one of the first three threatens five
\* on two of the lines row 1, column 1 and the diagonal (1,5)-(5,1)
CutBoards ==
    LET X == BLACK
        O == WHITE
        rows == << <<O, X, X, X, O>>,
                   <<X, O, O, X, O>>,
                   <<X, O, X, O, O>>,
                   <<X, X, O, O, X>>,
                   <<O, O, X, O, O>> >>
        pool == { CoordToPoint(FIVE, h[1], h[2]) :
                    h \in { <<1, 1>>, <<1, 5>>, <<5, 1>>, <<3, 4>> } }
        cells == OnBoardOf(FIVE)
        base == [p \in 0 .. (MaxPointOf(FIVE) - 1) |->
                    IF p \in cells THEN rows[p \div NSof(FIVE)][p % NSof(FIVE)] ELSE BORDER]
    IN  { [p \in DOMAIN base |-> IF p \in S THEN EMPTY ELSE base[p]] :
            S \in { T \in SUBSET pool : Cardinality(T) <= MaxCut } }

CutInit ==
    /\ size = FIVE
    /\ board \in CutBoards
    /\ liberty_of = EmptyLiberty(FIVE)
    /\ current_player = BLACK
    /\ pre_board = board
    /\ pre_player = BLACK
    /\ last = NoCall
    /\ out = NoScan
    /\ time = ModuleTime
    /\ toPlay \in {"b", "w"}
    /\ late = FALSE
    /\ stack = <<>>
    /\ ret = NoResult
    /\ status = "idle"
    /\ call_board = board
    /\ call_player = current_player
    /\ NoHistory
    /\ SearchIdle

SpecCut == CutInit /\ [][NextSolve]_vars

\* the invocation on top of the stack has its recursive call back with a
\* result that decides the node: win under an OR node, loss under an AND node
ChildDecides ==
    /\ status = "solving"
    /\ Len(stack) >= 1
    /\ Top.pc = "wait"
    /\ \/ WhosTurn(Top.turn) /\ ret.outcome = "True"
       \/ ~WhosTurn(Top.turn) /\ ret.outcome = "False"

\* what the node returns on such a result
DecidedResult ==
    IF WhosTurn(Top.turn) THEN Result("True", Top.move) ELSE Result("False", FalseMove)

\* C22 as stated: when a child of an OR node returns win the node returns win
\* with that move, and when a child of an AND node returns loss the node
\* returns loss, in both cases without applying any later candidate.
C22_CutOff ==
    [][(ChildDecides /\ stack' # stack) =>
           /\ stack' = SubSeq(stack, 1, Len(stack) - 1)
           /\ ret' = DecidedResult]_vars

\* C22: when a child of an OR node returns win, or a child of an AND node
\* returns loss, the node returns without applying any later candidate; it
\* returns win with that move (loss for the AND node) if the elapsed time
\* does not exceed the limit at the comparison that follows the undo, and
\* unknown if it does.
C22_CutOffUnlessLate ==
    [][(ChildDecides /\ stack' # stack) =>
           /\ stack' = SubSeq(stack, 1, Len(stack) - 1)
           /\ ret' = IF late THEN Result("unknown", FalseMove) ELSE DecidedResult]_vars

\* the child of an OR node has returned win within the limit while the node
\* has candidates left
C22_Witness ==
    /\ ChildDecides
    /\ ~late
    /\ WhosTurn(Top.turn)
    /\ Top.groups # <<>>

\* the same for an AND node whose child has returned loss
C22_WitnessAnd ==
    /\ ChildDecides
    /\ ~late
    /\ ~WhosTurn(Top.turn)
    /\ Top.groups # <<>>

----------------------------------------------------------------------------
(* The order of the candidates, checked under SpecOrder *)

\* the stones of `color` in a row from the neighbor of p in direction d on
RunToward(b, p, d, color) == WalkCount(b, p, d, color, 0, MaxPointOf(FIVE))

\* the longest run of `color` that a stone on p would extend, at most FIVE - 1
BestRun(b, p, color) ==
    LET runs == { RunToward(b, p, d, color) :
                    d \in { Shifts[i] : i \in 1 .. Len(Shifts) } \cup
                          { -Shifts[i] : i \in 1 .. Len(Shifts) } }
        best == CHOOSE n \in runs : \A m \in runs : m <= n
    IN  IF best > FIVE - 1 THEN FIVE - 1 ELSE best

\* the place of a point in the list returned
GroupOf(groups, p) == CHOOSE i \in 1 .. Len(groups) : p \in groups[i]

OrderColor == IF out.color = 2 THEN WHITE ELSE BLACK

\* C23: in the sequence returned by order_the_point(color), every empty point
\* that extends a run of 4 stones of color comes before every empty point
\* that at best extends a run of 3, those before the points that at best
\* extend a run of 2, those before the points that are only adjacent to a
\* single stone of color, and those before all remaining empty points.
C23_OrderByRun ==
    (out.call = "order_the_point" /\ ~out.err) =>
        \A p, q \in GroupPoints(out.value) :
            BestRun(board, p, OrderColor) > BestRun(board, q, OrderColor) =>
                GroupOf(out.value, p) < GroupOf(out.value, q)

\* the same for the points that extend a run of 2 or more and have an EMPTY
\* neighbor (so that is_legal accepts them): they come in the order of their
\* runs and before every other point
C23_OrderByRun_TwoOrMore ==
    (out.call = "order_the_point" /\ ~out.err) =>
        \A p, q \in GroupPoints(out.value) :
            /\ BestRun(board, p, OrderColor) >= 2
            /\ StoneHasLiberty(board, p)
            /\ BestRun(board, p, OrderColor) > BestRun(board, q, OrderColor)
            => GroupOf(out.value, p) < GroupOf(out.value, q)

\* the color has one stone on the board, and a point next to it comes after a
\* point that has no stone of the color next to it
C23_Failure ==
    /\ out.call = "order_the_point"
    /\ ~out.err
    /\ Cardinality(PointsOfColor(board, OrderColor)) = 1
    /\ \E p, q \in GroupPoints(out.value) :
          /\ BestRun(board, p, OrderColor) = 1
          /\ BestRun(board, q, OrderColor) = 0
          /\ GroupOf(out.value, q) < GroupOf(out.value, p)

----------------------------------------------------------------------------
(* SpecRules: the rule queries of the playout policy, called on a board    *)

\* block_open_four without its third group of checks
BlockOpenFour_noOpenFour(b, color) ==
    SelectSeq(Where1d(b, EMPTY),
              LAMBDA point :
                  \/ \E i \in 1 .. 4 :
                        StraightCheck(b, point, Shifts[i], Opponent(color), FIVE - 1, TRUE, FALSE)
                  \/ \E i \in 1 .. 4 :
                        StraightCheck(b, point, Shifts[i], Opponent(color), FIVE - 2, TRUE, FALSE))

\* block_open_four(color): the list found_points.  For every EMPTY point the
\* three if/elif chains are run in turn, each appending the point when one of
\* its checks succeeds and the point is not in the list yet.  A point can be
\* in the list only from its own pass of the loop, so `added` is what that
\* pass appends.
BlockOpenFour(b, color) ==
    LET versus_color == Opponent(color)
        empty_pts == Where1d(b, EMPTY)
        chain(point, points, empty1, empty2) ==
            \E i \in 1 .. 4 : StraightCheck(b, point, Shifts[i], versus_color, points,
                                            empty1, empty2)
        add(found, point, hit) ==
            IF hit /\ \A k \in 1 .. Len(found) : found[k] # point
            THEN Append(found, point) ELSE found
        added(point) ==
            add(add(add(<<>>, point, chain(point, FIVE - 1, TRUE, FALSE)),
                    point, chain(point, FIVE - 2, TRUE, FALSE)),
                point, chain(point, FIVE - 1, FALSE, TRUE))
        RECURSIVE from(_)
        from(i) == IF i > Len(empty_pts) THEN <<>> ELSE added(empty_pts[i]) \o from(i + 1)
    IN  from(1)

\* the boards the rule queries are called on have RuleSize rows and columns
RuleSize == 7

\* a line of four or five BLACK stones that starts in row 1, with a segment
\* of one or two cells at the edge emptied or given to WHITE
RuleBoards(sz) ==
    { Overlay(Overlay(EmptyBoard(sz), s1, BLACK), s2, c2) :
        s1 \in { s \in LongLines(sz) : \E p \in s : p \div NSof(sz) = 1 },
        s2 \in { s \in Segments(sz) : Cardinality(s) <= 2 }, c2 \in {EMPTY, WHITE} }

RulesInit ==
    /\ size = RuleSize
    /\ board \in RuleBoards(RuleSize)
    /\ liberty_of = EmptyLiberty(RuleSize)
    /\ current_player = BLACK
    /\ pre_board = EmptyBoard(RuleSize)
    /\ pre_player = BLACK
    /\ last = NoCall
    /\ out = NoScan
    /\ SolverIdle
    /\ NoHistory
    /\ SearchIdle

BlockOpenFourCall(color) ==
    /\ out.call = "none"
    /\ out' = [call |-> "block_open_four", color |-> color,
               value |-> BlockOpenFour(board, color)]
    /\ UNCHANGED <<size, board, current_player, liberty_of, last, pre_board, pre_player>>
    /\ UNCHANGED solverVars
    /\ UNCHANGED <<history, mc, monte_tree, mc_ret>>

NextRules == \E color \in {BLACK, WHITE} : BlockOpenFourCall(color)

SpecRules == RulesInit /\ [][NextRules]_vars

\* row `row` reads ..OOO.. in its columns 1 to 7, O being the other color
ThreeToBlock(row) ==
    /\ out.call = "block_open_four"
    /\ \A col \in {1, 2, 6, 7} : CellAt(board, row, col) = EMPTY
    /\ \A col \in 3 .. 5 : CellAt(board, row, col) = Opponent(out.color)

\* C24: block_open_four(color) contains only EMPTY points, each at most once,
\* and contains every point of open_four(opponent of color); for the row
\* ..OOO.. it contains the two cells directly adjacent to the run.
C24_BlockCoversOpenFour ==
    out.call = "block_open_four" =>
        LET blocks == { out.value[i] : i \in 1 .. Len(out.value) }
            fours == OpenFour(board, Opponent(out.color))
        IN  /\ blocks \subseteq PointsOfColor(board, EMPTY)
            /\ Cardinality(blocks) = Len(out.value)
            /\ { fours[i] : i \in 1 .. Len(fours) } \subseteq blocks
            /\ \A row \in 1 .. size :
                  ThreeToBlock(row) =>
                      {CoordToPoint(size, row, 2), CoordToPoint(size, row, 6)} \subseteq blocks

\* block_open_four was asked on a row ..OOO.. and returned the two cells next
\* to the run, which open_four of the other color holds too
C24_Witness ==
    /\ out.call = "block_open_four"
    /\ \E row \in 1 .. size :
          /\ ThreeToBlock(row)
          /\ CoordToPoint(size, row, 2) \in { out.value[i] : i \in 1 .. Len(out.value) }
          /\ CoordToPoint(size, row, 6) \in { out.value[i] : i \in 1 .. Len(out.value) }
    /\ Len(OpenFour(board, Opponent(out.color))) >= 2

----------------------------------------------------------------------------
(* SpecPlayout: simulate_iter(board, player, "rule") of the Gomoku player. *)
(* Every invocation checks for the end of the game, asks rulebased for a   *)
(* move, plays it for board.current_player and calls itself again.         *)

\* Bound on the invocations of one playout.
MaxPlies == 2

\* check_game_end_move_gomoku_win_counterwin(max): for the white stones and
\* then the black ones, point_check_game_end_move_gomoku returns the pointWin
\* of the first axis whose check is True; a pointWin that is not empty and not
\* in the list yet is appended.  A pointWin holds at most one point.
WinCounterwin(b, lo, max) ==
    LET RECURSIVE pointCheck(_, _, _)
        pointCheck(l, point, i) ==
            IF i > Len(Shifts) THEN [win |-> {}, lo |-> l]
            ELSE Bind(DirectionCheck(b, l, point, Shifts[i], max), LAMBDA d :
                      IF d.check THEN [win |-> d.pointWin, lo |-> d.lo]
                      ELSE pointCheck(d.lo, point, i + 1))
        RECURSIVE wins(_, _, _, _)
        wins(l, stones, i, acc) ==
            IF i > Len(stones) THEN [win |-> acc, lo |-> l]
            ELSE Bind(pointCheck(l, stones[i], 1), LAMBDA r :
                 Bind(IF r.win # {} /\ \A k \in 1 .. Len(acc) : acc[k] # r.win
                      THEN Append(acc, r.win) ELSE acc, LAMBDA win :
                      wins(r.lo, stones, i + 1, win)))
    IN  Bind(wins(lo, Where1d(b, WHITE), 1, <<>>), LAMBDA w :
        Bind(wins(w.lo, Where1d(b, BLACK), 1, <<>>), LAMBDA k :
             [whitewin |-> w.win, blackwin |-> k.win, lo |-> k.lo]))

\* win_blockwin(board, toPlay).  toPlay is the color simulate_iter was called
\* with, a number, so `toPlay == 'b'` is False for both colors and the branch
\* taken is the one written for white: whitewin before blackwin.
WinBlockwin(b, lo, to_play) ==
    Bind(WinCounterwin(b, lo, FIVE - 1), LAMBDA c :
         [moves |-> IF FALSE
                    THEN IF Len(c.blackwin) > 0 THEN c.blackwin ELSE c.whitewin
                    ELSE IF Len(c.whitewin) > 0 THEN c.whitewin ELSE c.blackwin,
          lo |-> c.lo])

\* rulebased(board, toPlay): the first of win_blockwin, open_four and
\* block_open_four that is not empty.  An entry of the win_blockwin list is a
\* list of one point, which indexes the grid as the point does.
RuleBased(b, lo, to_play) ==
    Bind(WinBlockwin(b, lo, to_play), LAMBDA winblockwin :
         [moves |-> IF winblockwin.moves # <<>>
                    THEN [k \in 1 .. Len(winblockwin.moves) |->
                             CHOOSE p \in winblockwin.moves[k] : TRUE]
                    ELSE IF OpenFour(b, to_play) # <<>> THEN OpenFour(b, to_play)
                    ELSE BlockOpenFour(b, to_play),
          lo |-> winblockwin.lo])

\* one invocation of simulate_iter(board, player, "rule") up to its return or
\* its recursive call
SimulateIter(player) ==
    /\ out.call = "none" \/ (out.call = "simulate_iter" /\ out.ret = "none"
                             /\ out.player = player /\ out.plies < MaxPlies)
    /\ \E e \in {CheckGameEndGomoku(board)} :
          IF e.end = "True"
          THEN /\ out' = [call |-> "simulate_iter", player |-> player, move |-> PASS,
                          mover |-> current_player,
                          ret |-> IF e.winner = player THEN "2" ELSE "0",
                          plies |-> IF out.call = "none" THEN 1 ELSE out.plies + 1]
               /\ UNCHANGED <<board, current_player, liberty_of, pre_board, pre_player>>
          ELSE \E r \in {RuleBased(board, liberty_of, player)} :
               \E move \in (IF r.moves # <<>> THEN {r.moves[1]}
                            ELSE GenerateRandomMoveGomoku(board)) :
                  /\ out' = [call |-> "simulate_iter", player |-> player, move |-> move,
                             mover |-> current_player,
                             ret |-> IF move = PASS THEN "1" ELSE "none",
                             plies |-> IF out.call = "none" THEN 1 ELSE out.plies + 1]
                  /\ liberty_of' = r.lo
                  /\ pre_board' = board
                  /\ pre_player' = current_player
                  /\ IF move # PASS /\ board[move] = EMPTY
                     THEN /\ board' = [board EXCEPT ![move] = current_player]
                          /\ current_player' = Opponent(current_player)
                     ELSE UNCHANGED <<board, current_player>>
    /\ UNCHANGED <<size, last>>
    /\ UNCHANGED solverVars
    /\ UNCHANGED <<history, mc, monte_tree, mc_ret>>

\* the playouts start on a line of four or five BLACK stones with a line of
\* four or five WHITE stones laid over it
PlayoutInit ==
    /\ size = FIVE
    /\ board \in { Overlay(Overlay(EmptyBoard(FIVE), s1, BLACK), s2, WHITE) :
                      s1 \in LongLines(FIVE), s2 \in LongLines(FIVE) }
    /\ liberty_of = EmptyLiberty(FIVE)
    /\ current_player \in {BLACK, WHITE}
    /\ pre_board = board
    /\ pre_player = current_player
    /\ last = NoCall
    /\ out = NoScan
    /\ time = ModuleTime
    /\ toPlay = "b"
    /\ late = FALSE
    /\ stack = <<>>
    /\ ret = NoResult
    /\ status = "idle"
    /\ call_board = board
    /\ call_player = current_player
    /\ NoHistory
    /\ SearchIdle

NextPlayout == \E player \in {BLACK, WHITE} : SimulateIter(player)

SpecPlayout == PlayoutInit /\ [][NextPlayout]_vars

\* the cells on which a stone of `color` completes a five
WinningCells(b, color) ==
    { p \in PointsOfColor(b, EMPTY) : HasFive([b EXCEPT ![p] = color], color) }

\* C25: in a rule-based playout, for either color, whenever the side to move
\* has a move that immediately completes five, the move chosen is such a
\* move.
C25_WinChosenFirst ==
    (out.call = "simulate_iter" /\ out.move # PASS /\ WinningCells(pre_board, out.mover) # {})
        => out.move \in WinningCells(pre_board, out.mover)

\* BLACK is the player and the side to move, both colors have a move that
\* completes five, and the move chosen is the one that blocks WHITE
C25_Failure ==
    /\ out.call = "simulate_iter"
    /\ out.player = BLACK
    /\ out.mover = BLACK
    /\ out.move # PASS
    /\ WinningCells(pre_board, BLACK) # {}
    /\ out.move \in WinningCells(pre_board, WHITE) \ WinningCells(pre_board, BLACK)

----------------------------------------------------------------------------
(* The best move after a pass of the search, checked under SpecSearch *)

\* a pass of the loop of Monte_Carlo_Tree has just ended with best_move
PassEnded == mc.pc = "loop" /\ mc.rounds >= 1

\* the nodes of the tree whose parent is the root signature
RootChildren == { i \in 1 .. Len(monte_tree) : monte_tree[i].first = mc.first }

\* start_move is the move of a child of the root whose ratio is maximal
BestIsMaxChild ==
    \E i \in RootChildren :
        /\ monte_tree[i].move = mc.start_move
        /\ \A j \in RootChildren : ~Less(monte_tree[i].win, monte_tree[j].win)

\* C26: after every iteration of Monte_Carlo_Tree, the selected best move is
\* the move recorded in a node whose parent is the root signature and whose
\* win/simulation ratio is maximal among all such nodes.
C26_BestIsMaxRatio == PassEnded => BestIsMaxChild

\* the same when some child of the root has won playouts
C26_BestIsMaxRatio_SomeWin ==
    (PassEnded /\ \E j \in RootChildren : monte_tree[j].win.wins > 0) => BestIsMaxChild

\* a pass has ended with two children of the root in the tree, none of which
\* has won a playout, and the best move is None
C26_Failure ==
    /\ PassEnded
    /\ Cardinality(RootChildren) >= 2
    /\ \A j \in RootChildren : monte_tree[j].win.wins = 0
    /\ mc.start_move = PASS

----------------------------------------------------------------------------
(* SpecEndSix: check_game_end_gomoku on boards that hold runs of six *)

\* the boards scanned for runs of six have SixSize rows and columns
SixSize == 6

\* two lines of four or five stones, one laid over the other: of one color
\* on one axis they make runs of six, of two colors two fives
EndSixInit ==
    /\ size = SixSize
    /\ board \in { Overlay(Overlay(EmptyBoard(SixSize), s1, c1), s2, c2) :
                      s1 \in LongLines(SixSize), c1 \in {BLACK, WHITE},
                      s2 \in LongLines(SixSize), c2 \in {BLACK, WHITE} }
    /\ liberty_of = EmptyLiberty(SixSize)
    /\ current_player = BLACK
    /\ pre_board = EmptyBoard(SixSize)
    /\ pre_player = BLACK
    /\ last = NoCall
    /\ out = NoScan
    /\ SolverIdle
    /\ NoHistory
    /\ SearchIdle

SpecEndSix == EndSixInit /\ [][NextEnd]_vars

\* some line of six consecutive cells holds only stones of `color`
HasSix(b, color) ==
    \E axis \in Axes, row \in 1 .. size, col \in 1 .. size :
        \A k \in 0 .. FIVE :
            /\ row + k * axis[1] \in 1 .. size
            /\ col + k * axis[2] \in 1 .. size
            /\ CellAt(b, row + k * axis[1], col + k * axis[2]) = color

\* C27: for every board content, including runs of six or more stones and
\* positions where both colors have a five, check_game_end_gomoku completes
\* without the assertion count <= 5 failing.
C27_AssertionHolds ==
    out.call = "check_game_end_gomoku" => out.value.end \in {"True", "False"}

\* check_game_end_gomoku has returned on a board with a run of six
C27_Witness ==
    /\ out.call = "check_game_end_gomoku"
    /\ out.value.end = "True"
    /\ HasSix(board, out.value.winner)

\* check_game_end_gomoku has returned on a board where both colors have a five
C27_WitnessBoth ==
    /\ out.call = "check_game_end_gomoku"
    /\ out.value.end = "True"
    /\ HasFive(board, BLACK)
    /\ HasFive(board, WHITE)

----------------------------------------------------------------------------
(* Spec: the GTP commands play, genmove, clear_board and boardsize on the
   connection as constructed *)

\* switchToPlay(toplay)
SwitchToPlay(toplay) == IF toplay = "b" THEN "w" ELSE "b"

\* clear_board_cmd: self.reset(self.board.size), which resets the board only
ClearBoardCmd ==
    /\ status = "idle"
    /\ Reset(size)
    /\ out' = [call |-> "clear_board"]
    /\ UNCHANGED <<last, pre_board, pre_player>>
    /\ UNCHANGED solverVars
    /\ UNCHANGED <<history, mc, monte_tree, mc_ret>>

\* boardsize_cmd: self.reset(int(args[0]))
BoardsizeCmd(n) ==
    /\ status = "idle"
    /\ Reset(n)
    /\ out' = [call |-> "boardsize"]
    /\ UNCHANGED <<last, pre_board, pre_player>>
    /\ UNCHANGED solverVars
    /\ UNCHANGED <<history, mc, monte_tree, mc_ret>>

\* play_cmd(args): board_color is args[0].lower(); arg is the point args[1]
\* names, PASS for 'pass', NULLPOINT for a coordinate move_to_coord rejects
\* (the ValueError is caught and answered)
PlayCmd(board_color, arg) ==
    /\ status = "idle"
    /\ LET color == IF board_color = "b" THEN BLACK ELSE WHITE IN
       IF board_color # "b" /\ board_color # "w"
       THEN /\ out' = [call |-> "play", placed |-> FALSE]
            /\ UNCHANGED <<board, current_player, toPlay>>
       ELSE IF arg = PASS
       THEN /\ current_player' = Opponent(color)
            /\ out' = [call |-> "play", placed |-> FALSE]
            /\ UNCHANGED <<board, toPlay>>
       ELSE IF arg \notin OnBoard
       THEN /\ out' = [call |-> "play", placed |-> FALSE]
            /\ UNCHANGED <<board, current_player, toPlay>>
       ELSE IF PlayResult(board, arg, color) # "True"
       THEN /\ out' = [call |-> "play", placed |-> FALSE]
            /\ UNCHANGED <<board, current_player, toPlay>>
       ELSE /\ board' = [board EXCEPT ![arg] = color]
            /\ current_player' = Opponent(color)
            /\ toPlay' = SwitchToPlay(board_color)
            /\ out' = [call |-> "play", placed |-> TRUE]
    /\ UNCHANGED <<size, liberty_of, last, pre_board, pre_player>>
    /\ UNCHANGED <<time, late, stack, ret, status, call_board, call_player>>
    /\ UNCHANGED <<history, mc, monte_tree, mc_ret>>

\* genmove_cmd(args) up to the call of minimax in solve_in, which searches
\* for self.toPlay whatever args[0] is
GenmoveCmd(board_color) ==
    /\ status = "idle"
    /\ \E e \in {CheckGameEndGomoku(board)} :
          IF e.end = "AssertionError"
          THEN /\ status' = "genmove_raised"
               /\ out' = [call |-> "genmove", color |-> board_color, placed |-> FALSE]
               /\ UNCHANGED <<late, stack, ret, call_board, call_player>>
          ELSE IF e.end = "True"
          THEN /\ out' = [call |-> "genmove", color |-> board_color, placed |-> FALSE]
               /\ UNCHANGED <<late, stack, ret, status, call_board, call_player>>
          ELSE /\ status' = "solving"
               /\ late' = FALSE
               /\ stack' = <<Frame(IF toPlay = "b" THEN 1 ELSE 2, "or")>>
               /\ ret' = NoResult
               /\ call_board' = board
               /\ call_player' = current_player
               /\ out' = [call |-> "solve_in", color |-> board_color, placed |-> FALSE]
    /\ UNCHANGED <<size, board, current_player, liberty_of, last, pre_board, pre_player,
                   time, toPlay>>
    /\ UNCHANGED <<history, mc, monte_tree, mc_ret>>

\* genmove_cmd from the return of solve_in: the move is the solver's when it
\* found a win for args[0], a random one otherwise; returnSA[1] is missing
\* when solve_in answers a color alone, and is_legal_gomoku(PASS, color)
\* compares a whole array, both of which raise
GenmoveEnd ==
    /\ status = "solved"
    /\ out.call = "solve_in"
    /\ LET color == IF out.color = "b" THEN BLACK ELSE WHITE
           answer == IF ret.outcome = "True" THEN toPlay
                     ELSE IF ret.outcome = "False" THEN SwitchToPlay(toPlay)
                     ELSE ret.outcome
           alone == ret.outcome = "False" \/ (ret.outcome = "True" /\ ret.move = TrueMove)
           moves == IF answer = out.color /\ ~alone THEN {ret.move}
                    ELSE GenerateRandomMoveGomoku(board)
       IN  IF answer = out.color /\ alone
           THEN /\ status' = "genmove_raised"
                /\ out' = [call |-> "genmove", color |-> out.color, placed |-> FALSE]
                /\ UNCHANGED <<board, current_player, toPlay>>
           ELSE \E move \in moves :
                  IF move = PASS
                  THEN /\ status' = "genmove_raised"
                       /\ out' = [call |-> "genmove", color |-> out.color, placed |-> FALSE]
                       /\ UNCHANGED <<board, current_player, toPlay>>
                  ELSE IF board[move] = EMPTY
                  THEN /\ board' = [board EXCEPT ![move] = color]
                       /\ current_player' = Opponent(color)
                       /\ toPlay' = SwitchToPlay(out.color)
                       /\ status' = "idle"
                       /\ out' = [call |-> "genmove", color |-> out.color, placed |-> TRUE]
                  ELSE \E again \in GenerateRandomMoveGomoku(board) :
                         /\ status' = "idle"
                         /\ UNCHANGED toPlay
                         /\ IF again # PASS /\ board[again] = EMPTY
                            THEN /\ board' = [board EXCEPT ![again] = color]
                                 /\ current_player' = Opponent(color)
                                 /\ out' = [call |-> "genmove", color |-> out.color,
                                            placed |-> TRUE]
                            ELSE /\ UNCHANGED <<board, current_player>>
                                 /\ out' = [call |-> "genmove", color |-> out.color,
                                            placed |-> FALSE]
    /\ UNCHANGED <<size, liberty_of, last, pre_board, pre_player>>
    /\ UNCHANGED <<time, late, stack, ret, call_board, call_player>>
    /\ UNCHANGED <<history, mc, monte_tree, mc_ret>>

NextGtp ==
    \/ \E board_color \in {"b", "w", "e"}, arg \in OnBoard \cup {PASS, NULLPOINT} :
          PlayCmd(board_color, arg)
    \/ \E board_color \in {"b", "w"} : GenmoveCmd(board_color)
    \/ ClearBoardCmd
    \/ BoardsizeCmd(MINSIZE)
    \/ TimelimitCmd(MinLimit)
    \/ Tick
    \/ MinimaxEnter
    \/ MinimaxTry
    \/ MinimaxResume
    \/ GenmoveEnd

SpecGtp == Init /\ [][NextGtp]_vars

\* C28: between commands, the connection's toPlay names the color of the
\* board's current_player
C28_ToPlayFollowsBoard ==
    status = "idle" => (toPlay = "b" <=> current_player = BLACK)

\* clear_board has just answered on a board black had played on: the board
\* is empty with BLACK to move and toPlay still names white
C28_Failure ==
    /\ status = "idle"
    /\ out.call = "clear_board"
    /\ StoneCount(board) = 0
    /\ current_player = BLACK
    /\ toPlay = "w"

----------------------------------------------------------------------------
(* Termination of minimax, checked under SpecSolve *)

\* the EMPTY cells of the board solve was called on
RootEmpty == Cardinality(GenerateLegalMovesGomoku(call_board))

\* an invocation that has not run yet stands on the board of the call with
\* one stone more for every invocation above it
OneStonePerCall ==
    (status = "solving" /\ Top.pc = "entry")
        => StoneCount(board) = StoneCount(call_board) + Len(stack) - 1

\* the candidates an invocation has still to try
RECURSIVE Untried(_)
Untried(groups) ==
    IF groups = <<>> THEN 0 ELSE Cardinality(Head(groups)) + Untried(Tail(groups))

\* the work left in one invocation: it falls when the invocation orders its
\* candidates, when it takes one and when it resumes after the recursive call
Rank(f) ==
    IF f.pc = "entry" THEN 3 * maxpoint + 2
    ELSE 3 * Untried(f.groups) + (IF f.pc = "loop" THEN 1 ELSE 2)

\* s comes before t in the lexicographic order of the ranks, outermost
\* invocation first, a prefix before its extensions
RankBefore(s, t) ==
    \/ /\ Len(s) < Len(t)
       /\ \A i \in 1 .. Len(s) : Rank(s[i]) = Rank(t[i])
    \/ \E i \in 1 .. Len(s) :
          /\ i <= Len(t)
          /\ Rank(s[i]) < Rank(t[i])
          /\ \A j \in 1 .. (i - 1) : Rank(s[j]) = Rank(t[j])

\* a step of solve in progress is the passing of the time limit, once, or
\* takes the stack of invocations down in an order without infinite descent
SearchAdvances ==
    status = "solving" =>
        \/ ~late /\ late' /\ stack' = stack
        \/ RankBefore(stack', stack)

\* C29: every recursive call of minimax is made with exactly one stone more
\* than its parent's, the recursion is never deeper than the number of EMPTY
\* cells at the root, and every step of the search brings its end nearer
C29_MinimaxTerminates ==
    /\ [](OneStonePerCall /\ Len(stack) <= RootEmpty + 1)
    /\ [][SearchAdvances]_vars

\* the recursion at its deepest on a root with three EMPTY cells: the
\* innermost call stands on the board with one cell left
C29_Witness ==
    /\ status = "solving"
    /\ RootEmpty >= 3
    /\ Len(stack) = RootEmpty
    /\ Top.pc = "entry"
    /\ StoneCount(board) = StoneCount(call_board) + RootEmpty - 1

----------------------------------------------------------------------------
(* Spec: one random playout, sim(test_board, color, color) as sim_do calls it,
   one step for each invocation of sim *)

\* the copy sim_do hands to sim, and the two players; call_board keeps the
\* position the playout starts from
SimInit ==
    /\ size = FIVE
    /\ board \in SolveBoards \cup CutBoards
    /\ liberty_of = EmptyLiberty(FIVE)
    /\ current_player = BLACK
    /\ pre_board = board
    /\ pre_player = BLACK
    /\ last = NoCall
    /\ \E color \in {BLACK, WHITE} :
          out = [call |-> "sim", player1 |-> color, player2 |-> color, depth |-> 0,
                 ret |-> "none"]
    /\ SolverIdle
    /\ NoHistory
    /\ SearchIdle

\* sim(board, player1, player2): one invocation.  The recursive call is the
\* last thing it does, so the value of the innermost invocation is the value
\* of the playout.
Sim ==
    /\ out.call = "sim"
    /\ out.ret = "none"
    /\ \E e \in {CheckGameEndGomoku(board)} :
          IF e.end = "AssertionError"
          THEN /\ out' = [out EXCEPT !.ret = "raise"]
               /\ UNCHANGED <<board, current_player>>
          ELSE IF e.end = "True"
          THEN /\ out' = [out EXCEPT !.ret = IF e.winner = out.player1 THEN "1" ELSE "0"]
               /\ UNCHANGED <<board, current_player>>
          ELSE \E move \in GenerateRandomMoveGomoku(board) :
                  IF move = PASS
                  THEN /\ out' = [out EXCEPT !.ret = "0"]
                       /\ UNCHANGED <<board, current_player>>
                  ELSE \E r \in {PlayResult(board, move, out.player2)} :
                          /\ board' = IF r = "True"
                                      THEN [board EXCEPT ![move] = out.player2]
                                      ELSE board
                          /\ current_player' = IF r = "True" THEN Opponent(out.player2)
                                               ELSE current_player
                          /\ IF r = "AssertionError"
                             THEN out' = [out EXCEPT !.ret = "raise"]
                             ELSE out' = [out EXCEPT !.player2 = Opponent(out.player2),
                                                     !.depth = out.depth + 1]
    /\ UNCHANGED <<size, liberty_of, last, pre_board, pre_player>>
    /\ UNCHANGED solverVars
    /\ UNCHANGED <<history, mc, monte_tree, mc_ret>>

NextSim == Sim

SpecSim == SimInit /\ [][NextSim]_vars

\* the position has a five of either color, or no EMPTY cell
PlayoutOver(b) ==
    \/ HasFive(b, BLACK)
    \/ HasFive(b, WHITE)
    \/ GenerateLegalMovesGomoku(b) = {}

\* the color of the stone the invocation at `depth` places: player1 first,
\* then the two colors in turn
ColorAtDepth(player1, depth) == IF depth % 2 = 0 THEN player1 ELSE Opponent(player1)

\* after `depth` recursive steps the playout stands on the starting position
\* plus one stone per step, no deeper than the EMPTY cells it started with;
\* its value is 0 or 1 and is returned at a position that is over
PlayoutBounded ==
    out.call = "sim" =>
        /\ out.depth <= RootEmpty
        /\ StoneCount(board) = StoneCount(call_board) + out.depth
        /\ out.player2 = ColorAtDepth(out.player1, out.depth)
        /\ out.ret \in {"none", "0", "1"}
        /\ out.ret # "none" => PlayoutOver(board)

\* an invocation returns at a position that is over, and otherwise puts one
\* stone of the color in turn on an EMPTY cell and recurses
PlayoutStep ==
    out.call = "sim" =>
        IF PlayoutOver(board)
        THEN out'.ret \in {"0", "1"} /\ board' = board
        ELSE /\ out'.ret = "none"
             /\ out'.depth = out.depth + 1
             /\ \E move \in OnBoard :
                   /\ board[move] = EMPTY
                   /\ board' = [board EXCEPT ![move] = ColorAtDepth(out.player1, out.depth)]

\* C30: a random playout places one stone per recursive step on an EMPTY
\* cell, the two colors in turn, and returns 0 or 1 after at most as many
\* steps as the position had EMPTY cells, at the first position with a five
\* or without a legal move
C30_PlayoutTerminates == []PlayoutBounded /\ [][PlayoutStep]_vars

\* a playout that has used every EMPTY cell of a position with three of them
\* and ends on the full board
C30_Witness ==
    /\ out.call = "sim"
    /\ RootEmpty >= 3
    /\ out.depth = RootEmpty
    /\ out.ret = "0"
    /\ ~HasFive(board, BLACK)
    /\ ~HasFive(board, WHITE)

\* a playout ended by a five of player1 before the board is full
C30_WitnessFive ==
    /\ out.call = "sim"
    /\ out.ret = "1"
    /\ out.depth >= 1
    /\ HasFive(board, out.player1)
    /\ GenerateLegalMovesGomoku(board) # {}

====
